---- MODULE Spec2Model ----
(***************************************************************************)
(* Task delegation queue of claude-memory (TaskManager, tasks.ts), and its *)
(* instance registry and inbox (InstanceManager, instances.ts; see below). *)
(*                                                                         *)
(* A task is one YAML file `<id>.yaml` that lives in one of four status    *)
(* directories ("buckets").  Every TaskManager method is a sequence of     *)
(* filesystem calls: findTask probes the four buckets in order, deleteTask *)
(* unlinks the file from one bucket, saveTask writes it into one bucket.   *)
(*                                                                         *)
(* Spec      : every method runs to completion before the next one starts  *)
(*             (calls issued one after the other by any instances).        *)
(* SpecConc  : the filesystem calls of methods run by different instances  *)
(*             interleave (one step per awaited fs call).                   *)
(*                                                                         *)
(* Timestamps (created_at, claimed_at, completed_at, acknowledged_at) and  *)
(* the free-text fields (title, description, ...) are not represented.     *)
(***************************************************************************)
EXTENDS Integers, Sequences, FiniteSets, TLC

\* ---- bounds of the model ----
MaxHistory == 4        \* longest status_history explored
MaxProgress == 1       \* longest progress_updates explored
MaxCalls == 2          \* SpecConc: calls each instance makes

\* ---- input domains ----
Instances == {"i1", "i2"}
Capabilities == {"x", "y"}
TaskIds == {"t1"}                          \* ids uuidv4 may hand out
NoInstance == "none"                       \* target.specific_instance / claimed_by absent
NoResult == [success |-> FALSE, data |-> "none", error |-> "none"]
Results == {[success |-> TRUE, data |-> "r1", error |-> "none"]}
Errors == {"e1"}
Messages == {"m1"}
Targets == [capabilities : SUBSET Capabilities, specific_instance : Instances \cup {NoInstance}]
\* the argument of a call: a TaskResult, an error or a progress message
NoArg == [error |-> "none", result |-> NoResult, message |-> "none"]

\* the four status directories, in the order findTask probes them
Buckets == <<"pending", "in_progress", "completed", "failed">>
BucketSet == {Buckets[k] : k \in 1..4}
Undefined == "undefined"

\* the value of `null` (findTask found no file)
Null == [null |-> TRUE]

VARIABLES
    files,      \* files[bucket][id]: content of <bucket>/<id>.yaml, or Null
    created,    \* the task ids createTask has handed out
    ret,        \* what the last completed call returned or raised (Spec)
    pc,         \* SpecConc: pc[i], the fs call instance i performs next
    cur,        \* SpecConc: cur[i], the locals of the call instance i is in
    registry,   \* content of the registry file instances/activity.yaml
    inbox,      \* the message files of the inbox directory
    now,        \* the wall clock (Date.now(), milliseconds)
    ticks,      \* how often the clock has advanced
    instanceId, \* instanceId[p]: InstanceManager.instanceId of process p
    heartbeatInterval, \* heartbeatInterval[p]: TRUE while the timer of p is set
    thr,        \* SpecRegConc: thr[t], the registry call thread t is in
    out,        \* what the last completed registry call returned
    ncalls,     \* the registry calls made so far
    touched,    \* touched[id]: the paths id passed to touchFile since it
                \* registered, least recently touched first
    memories,   \* the files of the memories directory, in order of creation
    indexFile,  \* content of index.json
    cache,      \* cache[s]: MemoryStore.index of store s
    clock,      \* the wall clock the memory store reads
    mret,       \* what the last completed store call returned
    mcalls,     \* the store calls made so far
    mthr,       \* SpecMemConc: mthr[s], the call store s is in
    timelineFile, \* content of timeline.json
    tcache      \* tcache[s]: MemoryStore.timeline of store s

taskVars == <<files, created, ret, pc, cur>>
regVars == <<registry, inbox, now, ticks, instanceId, heartbeatInterval, thr, out, ncalls,
             touched>>
memVars == <<memories, indexFile, cache, clock, mret, mcalls, mthr, timelineFile, tcache>>
vars == <<files, created, ret, pc, cur, registry, inbox, now, ticks, instanceId,
          heartbeatInterval, thr, out, ncalls, touched, memories, indexFile, cache, clock,
          mret, mcalls, mthr, timelineFile, tcache>>

----------------------------------------------------------------------------
\* TaskManager.getStatusDir: the switch has no default branch, so any other
\* status (claimed, cancelled) yields undefined.
getStatusDir(status) ==
    IF status \in BucketSet THEN status ELSE Undefined

\* TaskManager.findTask on a filesystem snapshot: first bucket holding the file
RECURSIVE findFrom(_, _, _)
findFrom(fs, id, k) ==
    IF k > 4 THEN Null
    ELSE IF fs[Buckets[k]][id] # Null THEN fs[Buckets[k]][id]
    ELSE findFrom(fs, id, k + 1)

findTask(fs, id) == findFrom(fs, id, 1)

\* TaskManager.saveTask: (over)write <dir>/<id>.yaml
saveTask(fs, task, dir) ==
    [fs EXCEPT ![dir][task.id] = task]

\* TaskManager.deleteTask: unlink, a missing file is ignored
deleteTask(fs, id, dir) ==
    [fs EXCEPT ![dir][id] = Null]

\* TaskManager.getTasksInStatus: every file of one bucket
getTasksInStatus(fs, dir) ==
    {fs[dir][id] : id \in {j \in TaskIds : fs[dir][j] # Null}}

HistoryEntry(status, by, message) ==
    [message |-> message, status |-> status, by |-> by]

\* the object createTask builds
NewTask(id, inst, target) ==
    [result |-> NoResult,
     status |-> "pending",
     id |-> id,
     target |-> target,
     created_by |-> inst,
     status_history |-> <<HistoryEntry("pending", inst, "none")>>,
     claimed_by |-> NoInstance,
     progress_updates |-> <<>>,
     wait_handle |-> [requester |-> inst, acknowledged |-> FALSE]]

----------------------------------------------------------------------------
\* The part of each method between findTask and the first filesystem write:
\* either it throws, or it decides which file to unlink and what to write.
Throw(text, id, status) ==
    [task |-> Null, kind |-> "error",
     err |-> [status |-> status, id |-> id, text |-> text], del |-> "none", save |-> "none"]

Write(task, del, save) ==
    [task |-> task, kind |-> "write",
     err |-> [status |-> "none", id |-> "none", text |-> "none"], del |-> del, save |-> save]

\* claimTask without its status check
claimTaskBodyNoCheck(task, inst) ==
    Write([task EXCEPT
             !.status = "claimed",
             !.status_history = Append(@, HistoryEntry("claimed", inst, "none")),
             !.claimed_by = inst],
          "pending", "in_progress")

claimTaskBody(task, inst) ==
    IF task.status # "pending"
    THEN Throw("is not pending", task.id, task.status)
    ELSE Write([task EXCEPT
                  !.status = "claimed",
                  !.status_history = Append(@, HistoryEntry("claimed", inst, "none")),
                  !.claimed_by = inst],
               "pending", "in_progress")

startTaskBody(task, inst) ==
    IF task.status # "claimed"
    THEN Throw("is not claimed", task.id, task.status)
    ELSE Write([task EXCEPT
                  !.status = "in_progress",
                  !.status_history = Append(@, HistoryEntry("in_progress", inst, "none")),
                  !.progress_updates = <<>>],
               "none", "in_progress")

updateProgressBody(task, message) ==
    IF task.status # "in_progress"
    THEN Throw("is not in progress", task.id, "omitted")
    ELSE Write([task EXCEPT !.progress_updates = Append(@, message)],
               "none", "in_progress")

\* completeTask checking only for a terminal status
completeTaskBodyLoose(task, inst, result) ==
    IF task.status = "completed" \/ task.status = "failed"
    THEN Throw("cannot be completed", task.id, task.status)
    ELSE Write([task EXCEPT
                  !.status = "completed",
                  !.status_history = Append(@, HistoryEntry("completed", inst, "none")),
                  !.result = result],
               "in_progress", "completed")

completeTaskBody(task, inst, result) ==
    IF task.status # "in_progress" /\ task.status # "claimed"
    THEN Throw("cannot be completed", task.id, task.status)
    ELSE Write([task EXCEPT
                  !.status = "completed",
                  !.status_history = Append(@, HistoryEntry("completed", inst, "none")),
                  !.result = result],
               "in_progress", "completed")

\* failTask has no status check; it unlinks from in_progress only when the
\* status before the push was in_progress or claimed.
failTaskBody(task, inst, error) ==
    LET currentStatus == task.status_history[Len(task.status_history)].status
    IN  Write([task EXCEPT
                 !.status = "failed",
                 !.status_history = Append(@, HistoryEntry("failed", inst, error)),
                 !.result = [success |-> FALSE, data |-> "none", error |-> error]],
              IF currentStatus \in {"in_progress", "claimed"} THEN "in_progress" ELSE "none",
              "failed")

\* acknowledgeResult saves into the directory named by the task's own status
acknowledgeResultBody(task) ==
    Write([task EXCEPT !.wait_handle.acknowledged = TRUE], "none", task.status)

----------------------------------------------------------------------------
\* the body of method op
Body(op, task, inst, arg) ==
    CASE op = "claimTask" -> claimTaskBody(task, inst)
      [] op = "startTask" -> startTaskBody(task, inst)
      [] op = "updateProgress" -> updateProgressBody(task, arg.message)
      [] op = "completeTask" -> completeTaskBody(task, inst, arg.result)
      [] op = "failTask" -> failTaskBody(task, inst, arg.error)
      [] op = "acknowledgeResult" -> acknowledgeResultBody(task)

\* methods declared Promise<Task | null>; the others are Promise<void>
ReturnsTask(op) == op \in {"claimTask", "startTask", "completeTask", "failTask"}

\* What a call returns or raises
Returned(op, inst, id, kind, task, err, list) ==
    [id |-> id, task |-> task, by |-> inst, kind |-> kind, err |-> err, op |-> op,
     list |-> list, caps |-> {}]

NoErr == [status |-> "none", id |-> "none", text |-> "none"]
TypeErr(id) == [status |-> "none", id |-> id, text |-> "TypeError"]

\* a method that dereferences the result of findTask without the null check
RunMethodNoNullCheck(fs, op, inst, id, arg) ==
    LET task == findTask(fs, id)
    IN  IF task = Null
        THEN [ret |-> Returned(op, inst, id, "error", Null, TypeErr(id), {}), fs |-> fs]
        ELSE LET plan == Body(op, task, inst, arg)
             IN  IF plan.kind = "error"
                 THEN [ret |-> Returned(op, inst, id, "error", Null, plan.err, {}), fs |-> fs]
                 ELSE [ret |-> Returned(op, inst, id,
                                        IF ReturnsTask(op) THEN "task" ELSE "void",
                                        IF ReturnsTask(op) THEN plan.task ELSE Null,
                                        NoErr, {}),
                       fs |-> saveTask(IF plan.del = "none" THEN fs
                                       ELSE deleteTask(fs, id, plan.del),
                                       plan.task, plan.save)]

\* A whole method run without interruption on filesystem fs:
\* findTask, the body, deleteTask, saveTask.
RunMethod(fs, op, inst, id, arg) ==
    LET task == findTask(fs, id)
    IN  IF task = Null
        THEN [ret |-> Returned(op, inst, id, IF ReturnsTask(op) THEN "null" ELSE "void",
                               Null, NoErr, {}),
              fs |-> fs]
        ELSE LET plan == Body(op, task, inst, arg)
             IN  IF plan.kind = "error"
                 THEN [ret |-> Returned(op, inst, id, "error", Null, plan.err, {}), fs |-> fs]
                 ELSE LET afterDelete == IF plan.del = "none" THEN fs
                                         ELSE deleteTask(fs, id, plan.del)
                      IN  IF getStatusDir(plan.save) = Undefined
                          THEN [ret |-> Returned(op, inst, id, "error", Null, TypeErr(id), {}),
                                fs |-> afterDelete]
                          ELSE [ret |-> Returned(op, inst, id,
                                                 IF ReturnsTask(op) THEN "task" ELSE "void",
                                                 IF ReturnsTask(op) THEN plan.task ELSE Null,
                                                 NoErr, {}),
                                fs |-> saveTask(afterDelete, plan.task, getStatusDir(plan.save))]

\* getClaimableTasks with `some` in place of `every`
getClaimableTasksSome(fs, inst, capabilities) ==
    {task \in getTasksInStatus(fs, "pending") :
        IF task.target.capabilities = {} THEN TRUE
        ELSE IF task.target.specific_instance # NoInstance
             THEN task.target.specific_instance = inst
             ELSE task.target.capabilities \cap capabilities # {}}

\* TaskManager.getClaimableTasks
getClaimableTasks(fs, inst, capabilities) ==
    {task \in getTasksInStatus(fs, "pending") :
        IF task.target.capabilities = {} THEN TRUE
        ELSE IF task.target.specific_instance # NoInstance
             THEN task.target.specific_instance = inst
             ELSE task.target.capabilities \subseteq capabilities}

\* TaskManager.getWaitingTasks
getWaitingTasks(fs, inst) ==
    {task \in UNION {getTasksInStatus(fs, b) : b \in BucketSet} :
        task.wait_handle.requester = inst /\ ~task.wait_handle.acknowledged}

\* TaskManager.checkCompletedWaits
checkCompletedWaits(fs, inst) ==
    {task \in getWaitingTasks(fs, inst) : task.status \in {"completed", "failed"}}

----------------------------------------------------------------------------
(***************************************************************************)
(* Instance registry and inbox of claude-memory (InstanceManager,          *)
(* instances.ts).                                                          *)
(*                                                                         *)
(* The registry is one YAML file.  Every InstanceManager method reads the  *)
(* whole document (loadRegistry), changes its copy and writes the whole    *)
(* document back (saveRegistry).                                           *)
(*                                                                         *)
(* SpecReg     : every method runs to completion before the next starts.   *)
(* SpecLoad    : as SpecReg, started on any content of the registry file.  *)
(* SpecRegConc : the reads and writes of the methods of different          *)
(*               processes, and of the heartbeat timer of a process,       *)
(*               interleave.                                               *)
(* SpecRegFair : SpecRegConc without a bound on the calls, every call in   *)
(*               progress eventually taking its next step.                 *)
(*                                                                         *)
(* machine, capabilities, session_info, working_on and the `since` of a    *)
(* wait are not represented.                                               *)
(***************************************************************************)
\* ---- bounds of the registry model ----
MaxTicks == 1          \* how often the clock advances
MaxFacadeOps == 3       \* SpecFacade: facade calls in a run
MaxRegOps == 2         \* SpecReg, SpecLoad: registry calls in a run
MaxRegCalls == 2       \* SpecRegConc: registry calls started in a run

\* ---- constants of instances.ts ----
ActivityCap == 100     \* recent_activity.slice(0, 100)
FilesCap == 20         \* files_touched.slice(-20)
IntervalSeconds == 60  \* createEmptyRegistry: heartbeat.interval_seconds
StaleSeconds == 300    \* createEmptyRegistry: heartbeat.stale_after_seconds
OfflineSeconds == 900  \* createEmptyRegistry: heartbeat.offline_after_seconds

\* ---- input domains ----
InstanceStatuses == {"active", "idle", "waiting", "offline"}
StatusArgs == {"idle", "offline"}          \* updateStatus(status)
WaitIds == {"t1", "t2"}                    \* waitForTask(taskId), clearWait(taskId)
TouchPaths == {"f01", "f02", "g1", "g2"}    \* touchFile(filePath)
LogActions == {"note"}                     \* logActivity(action)
Recipients == Instances \cup {"i10"}       \* sendMessage(to, ...)
MessageIds == {"msg_a", "msg_b"}           \* ids sendMessage may generate
TickSteps == {299999, 300000}                 \* milliseconds the clock advances by
Threads == Instances \X {"main", "timer"}

\* a number a YAML document may lack (undefined)
Num(v) == [v |-> v, defined |-> TRUE]
UndefinedNum == [v |-> 0, defined |-> FALSE]

\* Instance (types.ts); present = FALSE stands for "no such key in
\* registry.instances", has_waiting = FALSE for waiting_for undefined
NoEntry == [present |-> FALSE, current_status |-> "none", first_seen |-> 0,
            last_activity |-> 0, has_waiting |-> FALSE, waiting_for |-> <<>>,
            files_touched |-> <<>>]
ActivityEntry(t, id, action) == [action |-> action, timestamp |-> t, instance_id |-> id]

\* InstanceManager.createEmptyRegistry
createEmptyRegistry ==
    [instances |-> [id \in Instances |-> NoEntry],
     heartbeat |-> [interval_seconds |-> Num(IntervalSeconds),
                    stale_after_seconds |-> Num(StaleSeconds),
                    offline_after_seconds |-> Num(OfflineSeconds)],
     recent_activity |-> <<>>]

\* content of the registry file: no file, an empty file, text that is not
\* YAML, or a document that has some of the three top-level fields
RegistryFile(kind, hasI, hasH, hasR, doc) ==
    [kind |-> kind, doc |-> doc, has_instances |-> hasI,
     has_heartbeat |-> hasH, has_recent_activity |-> hasR]
MissingFile == RegistryFile("missing", FALSE, FALSE, FALSE, createEmptyRegistry)

\* InstanceManager.loadRegistry: readFile or YAML.parse raising, or a parse
\* result that is not an object, gives the empty registry; otherwise the
\* top-level fields of the document replace those of the empty registry
\* ({...createEmptyRegistry(), ...parsed}), heartbeat as a whole
loadRegistry(file) ==
    IF file.kind # "doc"
    THEN createEmptyRegistry
    ELSE [instances |-> IF file.has_instances THEN file.doc.instances
                        ELSE createEmptyRegistry.instances,
          heartbeat |-> IF file.has_heartbeat THEN file.doc.heartbeat
                        ELSE createEmptyRegistry.heartbeat,
          recent_activity |-> IF file.has_recent_activity THEN file.doc.recent_activity
                              ELSE createEmptyRegistry.recent_activity]

\* InstanceManager.saveRegistry: YAML.stringify leaves out undefined values
saveRegistry(doc) == RegistryFile("doc", TRUE, TRUE, TRUE, doc)

\* recent_activity.unshift(entry)
unshift(log, entry) == <<entry>> \o log
\* if (length > 100) recent_activity = recent_activity.slice(0, 100)
trimActivity(log) ==
    IF Len(log) > ActivityCap THEN SubSeq(log, 1, ActivityCap) ELSE log
\* files_touched.slice(-20)
sliceLast(list, n) ==
    IF Len(list) > n THEN SubSeq(list, Len(list) - n + 1, Len(list)) ELSE list
\* list.filter(x => x !== v)
RECURSIVE without(_, _)
without(list, v) ==
    IF list = <<>> THEN <<>>
    ELSE IF Head(list) = v THEN without(Tail(list), v)
         ELSE <<Head(list)>> \o without(Tail(list), v)
includes(list, v) == \E k \in 1..Len(list) : list[k] = v

\* what a method does to its copy of the document: write says whether it
\* calls saveRegistry
Plan(write, doc) == [doc |-> doc, write |-> write]

\* InstanceManager.register, between loadRegistry and saveRegistry
registerBody(doc, id, t) ==
    Plan(TRUE,
         [doc EXCEPT !.instances[id] =
                         [NoEntry EXCEPT !.present = TRUE, !.current_status = "active",
                                         !.first_seen = t, !.last_activity = t],
                     !.recent_activity =
                         trimActivity(unshift(doc.recent_activity,
                                              ActivityEntry(t, id, "registered")))])

\* InstanceManager.updateStatus, when the entry exists
updateStatusBody(doc, id, status, t) ==
    Plan(TRUE, [doc EXCEPT !.instances[id].current_status = status,
                           !.instances[id].last_activity = t])

\* InstanceManager.heartbeat
heartbeatBody(doc, id, t) ==
    IF doc.instances[id].present
    THEN Plan(TRUE, [doc EXCEPT !.instances[id].last_activity = t])
    ELSE Plan(FALSE, doc)

\* InstanceManager.goOffline, after updateStatus('offline') returned
goOfflineBody(doc, id, t) ==
    Plan(TRUE, [doc EXCEPT !.recent_activity =
                               unshift(doc.recent_activity,
                                       ActivityEntry(t, id, "went_offline"))])

\* touchFile that pushes the path without looking for it in the list
touchFileBodyNoDedupe(doc, id, filePath, t) ==
    LET e == doc.instances[id]
    IN  IF e.present
        THEN Plan(TRUE, [doc EXCEPT !.instances[id].files_touched =
                                        sliceLast(Append(e.files_touched, filePath), FilesCap),
                                    !.instances[id].last_activity = t])
        ELSE Plan(FALSE, doc)
\* InstanceManager.touchFile
touchFileBody(doc, id, filePath, t) ==
    LET e == doc.instances[id]
        pushed == IF includes(e.files_touched, filePath) THEN e.files_touched
                  ELSE sliceLast(Append(e.files_touched, filePath), FilesCap)
    IN  IF e.present
        THEN Plan(TRUE, [doc EXCEPT !.instances[id].files_touched = pushed,
                                    !.instances[id].last_activity = t])
        ELSE Plan(FALSE, doc)

\* InstanceManager.waitForTask
waitForTaskBody(doc, id, taskId) ==
    LET e == doc.instances[id]
    IN  IF e.present
        THEN Plan(TRUE, [doc EXCEPT !.instances[id].has_waiting = TRUE,
                                    !.instances[id].waiting_for = Append(e.waiting_for, taskId),
                                    !.instances[id].current_status = "waiting"])
        ELSE Plan(FALSE, doc)

\* clearWait that sets the status to active whatever is left
clearWaitBodyAlwaysActive(doc, id, taskId) ==
    LET e == doc.instances[id]
        left == without(e.waiting_for, taskId)
    IN  IF e.present /\ e.has_waiting
        THEN Plan(TRUE, [doc EXCEPT !.instances[id].waiting_for = left,
                                    !.instances[id].current_status = "active"])
        ELSE Plan(FALSE, doc)
\* InstanceManager.clearWait
clearWaitBody(doc, id, taskId) ==
    LET e == doc.instances[id]
        left == without(e.waiting_for, taskId)
    IN  IF e.present /\ e.has_waiting
        THEN Plan(TRUE, [doc EXCEPT !.instances[id].waiting_for = left,
                                    !.instances[id].current_status =
                                        IF left = <<>> THEN "active" ELSE e.current_status])
        ELSE Plan(FALSE, doc)

\* InstanceManager.logActivity
logActivityBody(doc, id, action, t) ==
    Plan(TRUE, [doc EXCEPT !.recent_activity =
                               trimActivity(unshift(doc.recent_activity,
                                                    ActivityEntry(t, id, action)))])

\* getActiveInstances that leaves out the instances marked offline
getActiveInstancesNotOffline(doc, t) ==
    LET stale == doc.heartbeat.stale_after_seconds
    IN  {id \in Instances :
            /\ doc.instances[id].present
            /\ doc.instances[id].current_status # "offline"
            /\ stale.defined
            /\ (t - doc.instances[id].last_activity) < stale.v * 1000}
\* InstanceManager.getActiveInstances: stale_after_seconds * 1000 is NaN when
\* the document has no such number, and no comparison with NaN is true
getActiveInstances(doc, t) ==
    LET stale == doc.heartbeat.stale_after_seconds
    IN  {id \in Instances :
            /\ doc.instances[id].present
            /\ stale.defined
            /\ (t - doc.instances[id].last_activity) < stale.v * 1000}

\* ---- inbox ----
\* the characters of the strings that make up a file name
chars(s) ==
    CASE s = "i1" -> <<"i", "1">>
      [] s = "i2" -> <<"i", "2">>
      [] s = "i10" -> <<"i", "1", "0">>
      [] s = "msg_a" -> <<"m", "s", "g", "_", "a">>
      [] s = "msg_b" -> <<"m", "s", "g", "_", "b">>
      [] s = "_to_" -> <<"_", "t", "o", "_">>
      [] s = ".yaml" -> <<".", "y", "a", "m", "l">>
\* String.prototype.includes / endsWith
stringIncludes(s, sub) ==
    \E k \in 1..(Len(s) - Len(sub) + 1) : SubSeq(s, k, k + Len(sub) - 1) = sub
endsWith(s, suffix) ==
    /\ Len(s) >= Len(suffix)
    /\ SubSeq(s, Len(s) - Len(suffix) + 1, Len(s)) = suffix
\* sendMessage: filename = `${id}_to_${to}.yaml`
fileName(id, to) == chars(id) \o chars("_to_") \o chars(to) \o chars(".yaml")

\* InboxMessage (types.ts); exists = FALSE: no file of that message id
NoMessage == [timestamp |-> 0, to |-> "none", exists |-> FALSE, from |-> "none",
              read |-> FALSE]
Message(from, to, read, t) ==
    [timestamp |-> t, to |-> to, exists |-> TRUE, from |-> from, read |-> read]
\* String.prototype.startsWith
startsWith(s, prefix) ==
    /\ Len(s) >= Len(prefix)
    /\ SubSeq(s, 1, Len(prefix)) = prefix

\* the loop of recoverSession and getUnreadMessages over readdir(inboxDir):
\* the unread messages whose file name includes `_to_${id}` and ends in .yaml
unreadMessages(box, id) ==
    {m \in MessageIds :
        /\ box[m].exists
        /\ stringIncludes(fileName(m, box[m].to), chars("_to_") \o chars(id))
        /\ endsWith(fileName(m, box[m].to), chars(".yaml"))
        /\ ~box[m].read}

----------------------------------------------------------------------------
\* ---- the memory store (store.ts): bounds of the model ----
MaxMemOps == 2          \* the calls of one behaviour of SpecMem
MaxMemCalls == 2        \* the calls of one behaviour of SpecMemConc

\* ---- constants of store.ts; importance and confidence in hundredths ----
RecentCap == 50
TimelineCap == 500
HighImportance == 70
DefaultImportance == 50
DefaultConfidence == 80

\* ---- input domains ----
Stores == {"s1", "s2"}                     \* the MemoryStore objects (processes)
MemoryTypes == {"decision", "event", "fact", "preference", "context", "conclusion"}
MemoryStatuses == {"active", "superseded", "archived"}
IndexKeys == {"version", "last_updated", "by_type", "by_tag", "by_file", "by_status",
              "recent", "high_importance"}
Tags == {"tag1"}
RelatedFiles == {"a.ts"}

\* a string is a sequence of tokens; a token is a piece of text no input
\* cuts, or the n-th value of a family of texts (the hex digits of a uuid,
\* the time of day of a timestamp)
Tok(s, n) == [n |-> n, s |-> s]
str(s) == <<Tok(s, 0)>>
\* uuidv4().slice(0, 12): eight hex digits, a hyphen, three hex digits
uuid(n) == <<Tok("hex8", n), Tok("-", 0), Tok("hex3", n)>>
\* timestamp.replace(/[:.]/g, '-').slice(0, 19): year, hyphen, rest
dateStr(t) == <<Tok("2026", 0), Tok("-", 0), Tok("MM-DDTHH-MM-SS", t)>>
generateFilename(timestamp, type, id) ==
    dateStr(timestamp) \o str("_") \o str(type) \o str("_") \o id \o str(".yaml")

\* Memory (types.ts): the fields the methods read or write; has_superseded_by
\* = FALSE stands for links.superseded_by undefined
Memory(id, type, t, inst, tags, related_files, supersedes, importance, confidence) ==
    [status |-> "active", id |-> id, timestamp |-> t, instance_id |-> inst, type |-> type,
     tags |-> tags, related_files |-> related_files, supersedes |-> supersedes,
     importance |-> importance, confidence |-> confidence,
     has_superseded_by |-> FALSE, superseded_by |-> <<>>,
     last_accessed |-> t, access_count |-> 0]
NoMemory == [Memory(<<>>, "none", 0, "none", <<>>, <<>>, <<>>, 0, 0) EXCEPT !.status = "none"]
\* the name of the file a memory is stored in
memoryFile(m) == generateFilename(m.timestamp, m.type, m.id)

\* CreateMemoryInput (types.ts)
CreateMemoryInput(type, tags, related_files, supersedes, importance, confidence) ==
    [type |-> type, tags |-> tags, related_files |-> related_files,
     supersedes |-> supersedes, importance |-> importance, confidence |-> confidence]
NoInput == CreateMemoryInput("none", <<>>, <<>>, <<>>, UndefinedNum, UndefinedNum)
\* input.importance ?? 0.5
orDefault(num, default) == IF num.defined THEN num.v ELSE default

\* MemoryIndex (types.ts); keys, typeKeys and statusKeys are the keys the
\* document, its by_type and its by_status have: a by_tag or by_file key that
\* is absent reads as the empty list (index.by_tag[tag] || [])
createEmptyIndex ==
    [keys |-> IndexKeys, typeKeys |-> MemoryTypes, statusKeys |-> MemoryStatuses,
     by_type |-> [t \in MemoryTypes |-> <<>>],
     by_tag |-> [g \in Tags |-> <<>>],
     by_file |-> [f \in RelatedFiles |-> <<>>],
     by_status |-> [st \in MemoryStatuses |-> <<>>],
     recent |-> <<>>, high_importance |-> <<>>]
\* the index file: missing, not JSON, or a JSON document
IndexFile(kind, doc) == [kind |-> kind, doc |-> doc]
MissingIndex == IndexFile("missing", <<>>)
CorruptIndex == IndexFile("corrupt", <<>>)
\* MemoryStore.index: null until loadIndex or saveIndex has set it
NoCache == [loaded |-> FALSE, index |-> <<>>]
Cached(index) == [loaded |-> TRUE, index |-> index]

\* MemoryStore.loadIndex: the cached index, else the parsed file as it is,
\* else (readFile or JSON.parse threw) the empty index
loadIndex(c, file) ==
    IF c.loaded THEN c.index
    ELSE IF file.kind = "json" THEN file.doc
    ELSE createEmptyIndex

\* MemoryStore.findMemoryFile: the files the find callback accepts; find
\* returns the first of them in the order of readdir
findMemoryFile(dir, id) ==
    {k \in 1..Len(dir) :
        /\ stringIncludes(memoryFile(dir[k]), id)
        /\ endsWith(memoryFile(dir[k]), str(".yaml"))}

\* for (const key of keys) { map[key] = map[key] || []; map[key].push(id) }
RECURSIVE pushEach(_, _, _)
pushEach(map, keys, id) ==
    IF keys = <<>> THEN map
    ELSE pushEach([map EXCEPT ![Head(keys)] = Append(@, id)], Tail(keys), id)

\* index.recent.unshift(id); if (length > 50) recent = recent.slice(0, 50)
unshiftRecentUncapped(recent, id) == <<id>> \o recent
unshiftRecent(recent, id) ==
    IF Len(recent) + 1 > RecentCap
    THEN SubSeq(<<id>> \o recent, 1, RecentCap)
    ELSE <<id>> \o recent

\* what a method has done to the index object when it returns or throws
IndexPlan(index, threw) == [index |-> index, threw |-> threw]

\* MemoryStore.addToIndex up to saveIndex: the index object is changed in
\* place, so a TypeError on an absent key leaves the earlier pushes in it
addToIndex(index, memory) ==
    LET ok1 == "by_type" \in index.keys /\ memory.type \in index.typeKeys
        i1 == [index EXCEPT !.by_type[memory.type] = Append(@, memory.id)]
        ok2 == memory.tags = <<>> \/ "by_tag" \in i1.keys
        i2 == [i1 EXCEPT !.by_tag = pushEach(@, memory.tags, memory.id)]
        ok3 == memory.related_files = <<>> \/ "by_file" \in i2.keys
        i3 == [i2 EXCEPT !.by_file = pushEach(@, memory.related_files, memory.id)]
        ok4 == "by_status" \in i3.keys /\ memory.status \in i3.statusKeys
        i4 == [i3 EXCEPT !.by_status[memory.status] = Append(@, memory.id)]
        ok5 == "recent" \in i4.keys
        i5 == [i4 EXCEPT !.recent = unshiftRecent(@, memory.id)]
        ok6 == memory.importance < HighImportance \/ "high_importance" \in i5.keys
        i6 == IF memory.importance >= HighImportance
              THEN [i5 EXCEPT !.high_importance = Append(@, memory.id)]
              ELSE i5
    IN  IF ~ok1 THEN IndexPlan(index, TRUE)
        ELSE IF ~ok2 THEN IndexPlan(i1, TRUE)
        ELSE IF ~ok3 THEN IndexPlan(i2, TRUE)
        ELSE IF ~ok4 THEN IndexPlan(i3, TRUE)
        ELSE IF ~ok5 THEN IndexPlan(i4, TRUE)
        ELSE IF ~ok6 THEN IndexPlan(i5, TRUE)
        ELSE IndexPlan(i6, FALSE)

\* MemoryStore.removeFromIndexArrays: Object.keys(undefined) and
\* undefined.filter throw a TypeError
removeFromIndexArrays(index, memoryId) ==
    LET ok1 == "by_type" \in index.keys
        i1 == [index EXCEPT !.by_type = [t \in MemoryTypes |-> without(index.by_type[t], memoryId)]]
        ok2 == "by_status" \in i1.keys
        i2 == [i1 EXCEPT !.by_status =
                            [st \in MemoryStatuses |-> without(i1.by_status[st], memoryId)]]
        ok3 == "recent" \in i2.keys
        i3 == [i2 EXCEPT !.recent = without(@, memoryId)]
        ok4 == "high_importance" \in i3.keys
        i4 == [i3 EXCEPT !.high_importance = without(@, memoryId)]
    IN  IF ~ok1 THEN IndexPlan(index, TRUE)
        ELSE IF ~ok2 THEN IndexPlan(i1, TRUE)
        ELSE IF ~ok3 THEN IndexPlan(i2, TRUE)
        ELSE IF ~ok4 THEN IndexPlan(i3, TRUE)
        ELSE IndexPlan(i4, FALSE)

\* markSuperseded after the file is written: removeFromIndexArrays, then
\* by_status.superseded = by_status.superseded || [] and the push
supersedeInIndex(index, memoryId) ==
    LET removed == removeFromIndexArrays(index, memoryId)
        i == removed.index
    IN  IF removed.threw THEN removed
        ELSE IndexPlan([i EXCEPT !.statusKeys = @ \cup {"superseded"},
                                 !.by_status["superseded"] = Append(@, memoryId)], FALSE)

\* markSuperseded: the content written back to the file found
superseded(memory, supersededBy) ==
    [memory EXCEPT !.status = "superseded", !.has_superseded_by = TRUE,
                   !.superseded_by = supersededBy]
\* getMemory: the content written back to the file found
accessed(memory, t) ==
    [memory EXCEPT !.last_accessed = t, !.access_count = @ + 1]

\* MemoryQuery (types.ts) without search (titles, summaries and details are
\* not part of the model); types, tags, files and status <<>> and since,
\* before, min_importance and limit 0 take the branches of undefined
MemoryQuery(types, tags, paths, status, include_superseded, since, before, min_importance, limit) ==
    [files |-> paths, status |-> status, tags |-> tags, types |-> types,
     include_superseded |-> include_superseded, since |-> since, before |-> before,
     min_importance |-> min_importance, limit |-> limit]
NoQuery == MemoryQuery(<<>>, <<>>, <<>>, <<>>, FALSE, 0, 0, 0, 0)
asSet(list) == {list[k] : k \in 1..Len(list)}
\* Object.values(by).flat() over the keys by has
flat(by, keys) == UNION {asSet(by[k]) : k \in keys}

\* queryMemories: candidateIds after the type, tag, file and status filters;
\* a TypeError when a map is read that the index has no key for
candidateIds(index, query) ==
    LET byType == IF query.types # <<>>
                  THEN flat(index.by_type, asSet(query.types) \cap index.typeKeys)
                  ELSE flat(index.by_type, index.typeKeys)
        byTag == IF query.tags # <<>>
                 THEN byType \cap flat(index.by_tag, asSet(query.tags) \cap Tags)
                 ELSE byType
        byFile == IF query.files # <<>>
                  THEN byTag \cap flat(index.by_file, asSet(query.files) \cap RelatedFiles)
                  ELSE byTag
    IN  IF query.status # <<>>
        THEN byFile \cap flat(index.by_status, asSet(query.status) \cap index.statusKeys)
        ELSE IF ~query.include_superseded
        THEN byFile \cap flat(index.by_status, {"active"} \cap index.statusKeys)
        ELSE byFile
candidateIdsThrows(index, query) ==
    \/ "by_type" \notin index.keys
    \/ query.tags # <<>> /\ "by_tag" \notin index.keys
    \/ query.files # <<>> /\ "by_file" \notin index.keys
    \/ (query.status # <<>> \/ ~query.include_superseded) /\ "by_status" \notin index.keys

\* memories.sort((a, b) => b.timestamp.localeCompare(a.timestamp)) on the
\* files ks of dir
RECURSIVE sortNewestFirst(_, _)
sortNewestFirst(dir, ks) ==
    IF ks = {} THEN <<>>
    ELSE LET k == CHOOSE k \in ks : \A j \in ks : dir[j].timestamp <= dir[k].timestamp
         IN  <<k>> \o sortNewestFirst(dir, ks \ {k})
\* memories.slice(0, limit) when limit is truthy
sliceLimit(list, limit) ==
    IF limit # 0 /\ Len(list) > limit THEN SubSeq(list, 1, limit) ELSE list

\* what a method leaves: the memory files, the index file, the index of the
\* calling store, whether it threw, and the value it returned
MemOutcome(dir, file, c, threw, memory, list) ==
    [cache |-> c, dir |-> dir, list |-> list, file |-> file, threw |-> threw,
     memory |-> memory]

\* MemoryStore.markSuperseded(memoryId, supersededBy), one outcome for every
\* file findMemoryFile may return
markSupersededOutcomes(dir, file, c, memoryId, supersededBy) ==
    IF findMemoryFile(dir, memoryId) = {}
    THEN {MemOutcome(dir, file, c, FALSE, NoMemory, <<>>)}
    ELSE {LET plan == supersedeInIndex(loadIndex(c, file), memoryId)
          IN  MemOutcome([dir EXCEPT ![k] = superseded(dir[k], supersededBy)],
                      IF plan.threw THEN file ELSE IndexFile("json", plan.index),
                      Cached(plan.index), plan.threw, NoMemory, <<>>) :
          k \in findMemoryFile(dir, memoryId)}

\* createMemory: for (const supersededId of input.links.supersedes)
\*                   await this.markSuperseded(supersededId, id)
RECURSIVE supersedeAll(_, _, _)
supersedeAll(o, ids, by) ==
    IF ids = <<>> \/ o.threw THEN {o}
    ELSE UNION {supersedeAll(o2, Tail(ids), by) :
                o2 \in markSupersededOutcomes(o.dir, o.file, o.cache, Head(ids), by)}

\* MemoryStore.createMemory(input) by store s at time t
createMemoryOutcomes(dir, file, c, s, input, t) ==
    LET id == uuid(Len(dir) + 1)
        memory == Memory(id, input.type, t, s, input.tags, input.related_files,
                         input.supersedes,
                         orDefault(input.importance, DefaultImportance),
                         orDefault(input.confidence, DefaultConfidence))
        added == addToIndex(loadIndex(c, file), memory)
    IN  IF added.threw
        THEN {MemOutcome(Append(dir, memory), file, Cached(added.index), TRUE, NoMemory, <<>>)}
        ELSE {[o EXCEPT !.memory = IF o.threw THEN NoMemory ELSE memory] :
              o \in supersedeAll(MemOutcome(Append(dir, memory),
                                         IndexFile("json", added.index),
                                         Cached(added.index), FALSE, NoMemory, <<>>),
                                 input.supersedes, id)}

\* MemoryStore.getMemory(id) at time t
getMemoryOutcomes(dir, file, c, id, t) ==
    IF findMemoryFile(dir, id) = {}
    THEN {MemOutcome(dir, file, Cached(loadIndex(c, file)), FALSE, NoMemory, <<>>)}
    ELSE {MemOutcome([dir EXCEPT ![k] = accessed(dir[k], t)], file,
                  Cached(loadIndex(c, file)), FALSE, accessed(dir[k], t), <<>>) :
          k \in findMemoryFile(dir, id)}

\* MemoryStore.queryMemories(query) at time t; the candidate ids are ids of
\* by_type, which addToIndex pushed: each is in the name of one file at most
queryMemoriesOutcome(dir, file, c, query, t) ==
    LET index == loadIndex(c, file)
        loaded == UNION {findMemoryFile(dir, id) : id \in candidateIds(index, query)}
        after == [k \in 1..Len(dir) |-> IF k \in loaded THEN accessed(dir[k], t) ELSE dir[k]]
        kept == {k \in loaded :
                    /\ ~(query.since # 0 /\ dir[k].timestamp < query.since)
                    /\ ~(query.before # 0 /\ dir[k].timestamp > query.before)
                    /\ ~(query.min_importance # 0
                           /\ dir[k].importance < query.min_importance)}
        sorted == sortNewestFirst(dir, kept)
    IN  IF candidateIdsThrows(index, query)
        THEN MemOutcome(dir, file, Cached(index), TRUE, NoMemory, <<>>)
        ELSE MemOutcome(after, file, Cached(index), FALSE, NoMemory,
                     sliceLimit([j \in 1..Len(sorted) |-> dir[sorted[j]].id], query.limit))

\* what a store call returned: kind is void, null, value or throw; memory the
\* Memory, list the ids of the Memory[] and index the MemoryIndex returned
MemDone(op, s, kind, id, by, input, query, memory, list, index) ==
    [id |-> id, by |-> by, kind |-> kind, op |-> op, list |-> list, index |-> index,
     memory |-> memory, query |-> query, input |-> input, store |-> s]
\* no call has returned yet
NoMemDone == [kind |-> "void", op |-> "none", store |-> "none"]
\* SpecMemConc: the call a store is in; phase is the filesystem call it
\* performs next, k the file findMemoryFile returned, buf the content read,
\* todo the ids the loop of the call has still to handle
MemThread(op, phase, id, by, k, buf, todo, done, query, input, memory) ==
    [k |-> k, id |-> id, by |-> by, op |-> op, memory |-> memory, query |-> query,
     input |-> input, phase |-> phase, buf |-> buf, todo |-> todo, done |-> done]
NewMemThread ==
    MemThread("none", "idle", <<>>, <<>>, 0, NoMemory, <<>>, {}, NoQuery, NoInput, NoMemory)
\* the store is in no call
IdleMemThread == [op |-> "none", phase |-> "idle"]

\* ---- timeline.json ----
\* the TimelineEntry createMemory adds for a memory (summary, the title, is
\* not modelled)
TimelineEntry(timestamp, memory_id, type, supersedes) ==
    [timestamp |-> timestamp, type |-> type, supersedes |-> supersedes,
     memory_id |-> memory_id]
entryOf(memory) ==
    TimelineEntry(memory.timestamp, memory.id, memory.type, memory.supersedes)
\* content of timeline.json: kind is missing or json
TimelineFile(kind, entries) == [kind |-> kind, entries |-> entries]
MissingTimeline == TimelineFile("missing", <<>>)
\* this.timeline: null, or the Timeline object loaded or saved last
NoTimeline == [loaded |-> FALSE, entries |-> <<>>]
CachedTimeline(entries) == [loaded |-> TRUE, entries |-> entries]
\* MemoryStore.loadTimeline: the entries of the cached object, of the file,
\* or of { entries: [] }
loadTimeline(tc, file) ==
    IF tc.loaded THEN tc.entries
    ELSE IF file.kind = "json" THEN file.entries ELSE <<>>
\* MemoryStore.addToTimeline: push(entry), then slice(-500) when longer
addToTimeline(entries, entry) == sliceLast(Append(entries, entry), TimelineCap)
\* entries.sort((a, b) => b.timestamp.localeCompare(a.timestamp)): a stable
\* sort, newest first
sortTimeline(entries) == SortSeq(entries, LAMBDA a, b : a.timestamp > b.timestamp)
\* limit ? entries.slice(0, limit) : entries
sliceTimeline(entries, limit) ==
    IF limit # 0 /\ Len(entries) > limit THEN SubSeq(entries, 1, limit) ELSE entries

\* no memory file, no index file, no store has loaded the index
MemFresh ==
    /\ memories = <<>>
    /\ indexFile = MissingIndex
    /\ cache = [s \in Stores |-> NoCache]
    /\ clock = 0
    /\ mret = NoMemDone
    /\ mcalls = 0
    /\ mthr = [s \in Stores |-> IdleMemThread]
    /\ timelineFile = MissingTimeline
    /\ tcache = [s \in Stores |-> NoTimeline]

----------------------------------------------------------------------------
\* ---- state after construction, and states earlier calls leave ----
RegArg(status, taskId, filePath, action, previousInstanceId) ==
    [status |-> status, action |-> action, filePath |-> filePath, taskId |-> taskId,
     previousInstanceId |-> previousInstanceId]
NoRegArg == RegArg("none", "none", "none", "none", "none")
\* what a registry call returned: kind is void, null or value; active the
\* ids getActiveInstances returned; waits and msgs the pendingWaits and
\* unreadMessages of recoverSession (msgs also: the message sent, marked or
\* the messages deleted); list the array getUnreadMessages returned
RegDone(op, p, id, arg, kind, active, waits, msgs) ==
    [id |-> id, kind |-> kind, op |-> op, arg |-> arg, list |-> <<>>, active |-> active,
     waits |-> waits, msgs |-> msgs, proc |-> p]
NoRegDone == RegDone("none", "none", "none", NoRegArg, "void", {}, <<>>, {})
\* a thread of SpecRegConc: the method it is in, the step it takes next,
\* its copy of the document, whether its goOffline has returned with no
\* register, updateStatus or goOffline called since, and whether it has
\* started a call at all
Thread(op, arg, phase, buf, offline, started) ==
    [op |-> op, arg |-> arg, phase |-> phase, buf |-> buf, offline |-> offline,
     started |-> started]
IdleThread == Thread("none", NoRegArg, "idle", createEmptyRegistry, FALSE, FALSE)

\* the paths 20 earlier touchFile calls of i1 left in files_touched
SeedPaths == <<"f01", "f02", "f03", "f04", "f05", "f06", "f07", "f08", "f09", "f10",
               "f11", "f12", "f13", "f14", "f15", "f16", "f17", "f18", "f19", "f20">>
\* the document after i1 registered, touched the 20 paths of SeedPaths,
\* called waitForTask for the ids of waits and logged n activities (all at
\* time 0), in a registry whose stale_after_seconds is stale
SeedDoc(n, stale, waits) ==
    [createEmptyRegistry EXCEPT
        !.instances["i1"] = [NoEntry EXCEPT !.present = TRUE,
                                            !.current_status =
                                                IF waits = <<>> THEN "active" ELSE "waiting",
                                            !.has_waiting = (waits # <<>>),
                                            !.waiting_for = waits,
                                            !.files_touched = SeedPaths],
        !.heartbeat.stale_after_seconds = Num(stale),
        !.recent_activity = [k \in 1..n |-> ActivityEntry(0, "i1", "note")]]
Seeds == {<<StaleSeconds, <<>> >>, <<StaleSeconds, <<"t1">> >>, <<1, <<>> >>}

\* the part of Init every specification shares
ManagerFresh ==
    /\ now = 0
    /\ ticks = 0
    /\ instanceId = [p \in Instances |-> p]
    /\ heartbeatInterval = [p \in Instances |-> FALSE]
    /\ thr = [t \in Threads |-> IdleThread]
    /\ out = NoRegDone
    /\ ncalls = 0
RegFresh ==
    /\ ManagerFresh
    /\ inbox = [m \in MessageIds |-> NoMessage]

----------------------------------------------------------------------------
NoRet == Returned("none", NoInstance, "none", "void", Null, NoErr, {})
NoPlan == Write(Null, "none", "none")
\* SpecConc: how the last call of an instance ended (kind as in Returned,
\* text the message of the error raised)
Outcome(op, id, kind, text) == [id |-> id, text |-> text, kind |-> kind, op |-> op]
NoOutcome == Outcome("none", "none", "void", "none")
NoCall == [ret |-> NoOutcome, id |-> "none", op |-> "none", arg |-> NoArg, plan |-> NoPlan,
           idx |-> 1, calls |-> 0]

TaskFresh ==
    /\ files = [b \in BucketSet |-> [id \in TaskIds |-> Null]]
    /\ created = {}
    /\ ret = NoRet
    /\ pc = [i \in Instances |-> "idle"]
    /\ cur = [i \in Instances |-> NoCall]

Init ==
    /\ TaskFresh
    /\ MemFresh
    /\ RegFresh
    /\ registry = MissingFile
    /\ touched = [id \in Instances |-> <<>>]

\* methods that push a status_history entry / a progress update
Pushes(op) == op \in {"claimTask", "startTask", "completeTask", "failTask"}

\* the pushes are explored up to MaxHistory entries and MaxProgress updates
Room(op, task, plan) ==
    plan.kind = "write" =>
        /\ Pushes(op) => Len(task.status_history) < MaxHistory
        /\ op = "updateProgress" => Len(task.progress_updates) < MaxProgress

\* ---- the methods, each run to completion ----
Runnable(op, inst, id, arg) ==
    findTask(files, id) # Null =>
        Room(op, findTask(files, id), Body(op, findTask(files, id), inst, arg))

createTask(inst, target) ==
    /\ \E id \in TaskIds \ created :
         LET task == NewTask(id, inst, target)
         IN  /\ files' = saveTask(files, task, "pending")
             /\ ret' = Returned("createTask", inst, id, "task", task, NoErr, {})
             /\ created' = created \cup {id}
    /\ UNCHANGED <<pc, cur>>
    /\ UNCHANGED <<regVars, memVars>>

claimTask(inst, id) ==
    /\ Runnable("claimTask", inst, id, NoArg)
    /\ files' = RunMethod(files, "claimTask", inst, id, NoArg).fs
    /\ ret' = RunMethod(files, "claimTask", inst, id, NoArg).ret
    /\ UNCHANGED <<created, pc, cur>>
    /\ UNCHANGED <<regVars, memVars>>

startTask(inst, id) ==
    /\ Runnable("startTask", inst, id, NoArg)
    /\ files' = RunMethod(files, "startTask", inst, id, NoArg).fs
    /\ ret' = RunMethod(files, "startTask", inst, id, NoArg).ret
    /\ UNCHANGED <<created, pc, cur>>
    /\ UNCHANGED <<regVars, memVars>>

updateProgress(inst, id, message) ==
    /\ Runnable("updateProgress", inst, id, [NoArg EXCEPT !.message = message])
    /\ files' = RunMethod(files, "updateProgress", inst, id, [NoArg EXCEPT !.message = message]).fs
    /\ ret' = RunMethod(files, "updateProgress", inst, id, [NoArg EXCEPT !.message = message]).ret
    /\ UNCHANGED <<created, pc, cur>>
    /\ UNCHANGED <<regVars, memVars>>

completeTask(inst, id, result) ==
    /\ Runnable("completeTask", inst, id, [NoArg EXCEPT !.result = result])
    /\ files' = RunMethod(files, "completeTask", inst, id, [NoArg EXCEPT !.result = result]).fs
    /\ ret' = RunMethod(files, "completeTask", inst, id, [NoArg EXCEPT !.result = result]).ret
    /\ UNCHANGED <<created, pc, cur>>
    /\ UNCHANGED <<regVars, memVars>>

failTask(inst, id, error) ==
    /\ Runnable("failTask", inst, id, [NoArg EXCEPT !.error = error])
    /\ files' = RunMethod(files, "failTask", inst, id, [NoArg EXCEPT !.error = error]).fs
    /\ ret' = RunMethod(files, "failTask", inst, id, [NoArg EXCEPT !.error = error]).ret
    /\ UNCHANGED <<created, pc, cur>>
    /\ UNCHANGED <<regVars, memVars>>

acknowledgeResult(inst, id) ==
    /\ Runnable("acknowledgeResult", inst, id, NoArg)
    /\ files' = RunMethod(files, "acknowledgeResult", inst, id, NoArg).fs
    /\ ret' = RunMethod(files, "acknowledgeResult", inst, id, NoArg).ret
    /\ UNCHANGED <<created, pc, cur>>
    /\ UNCHANGED <<regVars, memVars>>

getTask(inst, id) ==
    /\ ret' = LET task == findTask(files, id)
              IN  Returned("getTask", inst, id, IF task = Null THEN "null" ELSE "task",
                           task, NoErr, {})
    /\ UNCHANGED <<files, created, pc, cur>>
    /\ UNCHANGED <<regVars, memVars>>

getClaimable(inst, capabilities) ==
    /\ ret' = [Returned("getClaimableTasks", inst, "none", "list", Null, NoErr,
                        getClaimableTasks(files, inst, capabilities))
               EXCEPT !.caps = capabilities]
    /\ UNCHANGED <<files, created, pc, cur>>
    /\ UNCHANGED <<regVars, memVars>>

checkWaits(inst) ==
    /\ ret' = Returned("checkCompletedWaits", inst, "none", "list", Null, NoErr,
                       checkCompletedWaits(files, inst))
    /\ UNCHANGED <<files, created, pc, cur>>
    /\ UNCHANGED <<regVars, memVars>>

Next ==
    \/ \E i \in Instances, tg \in Targets : createTask(i, tg)
    \/ \E i \in Instances, id \in TaskIds : claimTask(i, id)
    \/ \E i \in Instances, id \in TaskIds : startTask(i, id)
    \/ \E i \in Instances, id \in TaskIds, m \in Messages : updateProgress(i, id, m)
    \/ \E i \in Instances, id \in TaskIds, r \in Results : completeTask(i, id, r)
    \/ \E i \in Instances, id \in TaskIds, e \in Errors : failTask(i, id, e)
    \/ \E i \in Instances, id \in TaskIds : acknowledgeResult(i, id)
    \/ \E i \in Instances, id \in TaskIds : getTask(i, id)
    \/ \E i \in Instances, c \in SUBSET Capabilities : getClaimable(i, c)
    \/ \E i \in Instances : checkWaits(i)

Spec == Init /\ [][Next]_vars

\* ---- the methods, one step per awaited filesystem call ----
\* findTask: one readFile of <Buckets[idx]>/<id>.yaml; on a hit the body runs
\* (no await in it) and the call goes on to its unlink or its write.
Probe(inst, c) ==
    LET task == files[Buckets[c.idx]][c.id]
    IN  IF task # Null
        THEN /\ Room(c.op, task, Body(c.op, task, inst, c.arg))
             /\ LET plan == Body(c.op, task, inst, c.arg)
                IN  IF plan.kind = "error"
                    THEN /\ pc' = [pc EXCEPT ![inst] = "idle"]
                         /\ cur' = [cur EXCEPT ![inst] = [NoCall EXCEPT !.calls = c.calls, !.ret =
                                Outcome(c.op, c.id, "error", plan.err.text)]]
                    ELSE /\ pc' = [pc EXCEPT ![inst] =
                                IF plan.del = "none" THEN "save" ELSE "delete"]
                         /\ cur' = [cur EXCEPT ![inst] = [c EXCEPT !.plan = plan]]
        ELSE IF c.idx = 4
             THEN /\ pc' = [pc EXCEPT ![inst] = "idle"]
                  /\ cur' = [cur EXCEPT ![inst] = [NoCall EXCEPT !.calls = c.calls, !.ret =
                         Outcome(c.op, c.id,
                                  IF ReturnsTask(c.op) THEN "null" ELSE "void", "none")]]
             ELSE /\ pc' = [pc EXCEPT ![inst] = "find"]
                  /\ cur' = [cur EXCEPT ![inst] = [c EXCEPT !.idx = c.idx + 1]]

\* a call starts with findTask's first readFile (the pending bucket)
Call(inst, op, id, arg) ==
    /\ pc[inst] = "idle"
    /\ cur[inst].calls < MaxCalls
    /\ Probe(inst, [ret |-> NoOutcome, id |-> id, op |-> op, arg |-> arg, plan |-> NoPlan,
                    idx |-> 1, calls |-> cur[inst].calls + 1])
    /\ UNCHANGED <<files, created, ret>>
    /\ UNCHANGED <<regVars, memVars>>

FindStep(inst) ==
    /\ pc[inst] = "find"
    /\ Probe(inst, cur[inst])
    /\ UNCHANGED <<files, created, ret>>
    /\ UNCHANGED <<regVars, memVars>>

DeleteStep(inst) ==
    /\ pc[inst] = "delete"
    /\ files' = deleteTask(files, cur[inst].id, cur[inst].plan.del)
    /\ pc' = [pc EXCEPT ![inst] = "save"]
    /\ UNCHANGED <<created, ret, cur>>
    /\ UNCHANGED <<regVars, memVars>>

SaveStep(inst) ==
    /\ pc[inst] = "save"
    /\ LET c == cur[inst]
           dir == getStatusDir(c.plan.save)
       IN  IF dir = Undefined
           THEN /\ files' = files
                /\ cur' = [cur EXCEPT ![inst] = [NoCall EXCEPT !.calls = c.calls, !.ret =
                       Outcome(c.op, c.id, "error", "TypeError")]]
           ELSE /\ files' = saveTask(files, c.plan.task, dir)
                /\ cur' = [cur EXCEPT ![inst] = [NoCall EXCEPT !.calls = c.calls, !.ret =
                       Outcome(c.op, c.id,
                                IF ReturnsTask(c.op) THEN "task" ELSE "void", "none")]]
    /\ pc' = [pc EXCEPT ![inst] = "idle"]
    /\ UNCHANGED <<created, ret>>
    /\ UNCHANGED <<regVars, memVars>>

\* createTask makes a single write
CreateStep(inst, target) ==
    /\ pc[inst] = "idle"
    /\ cur[inst].calls < MaxCalls
    /\ \E id \in TaskIds \ created :
         LET task == NewTask(id, inst, target)
         IN  /\ files' = saveTask(files, task, "pending")
             /\ cur' = [cur EXCEPT ![inst] = [NoCall EXCEPT
                        !.calls = cur[inst].calls + 1, !.ret = Outcome("createTask", id, "task", "none")]]
             /\ created' = created \cup {id}
    /\ UNCHANGED <<pc, ret>>
    /\ UNCHANGED <<regVars, memVars>>

ConcOps == {"claimTask", "startTask", "updateProgress", "completeTask", "failTask",
            "acknowledgeResult"}
ConcArgs == {[error |-> e, result |-> r, message |-> m] :
                r \in Results, e \in Errors, m \in Messages}
ConcTargets == {[capabilities |-> {}, specific_instance |-> NoInstance]}

NextConc ==
    \/ \E i \in Instances, tg \in ConcTargets : CreateStep(i, tg)
    \/ \E i \in Instances, op \in ConcOps, id \in TaskIds, a \in ConcArgs : Call(i, op, id, a)
    \/ \E i \in Instances : FindStep(i)
    \/ \E i \in Instances : DeleteStep(i)
    \/ \E i \in Instances : SaveStep(i)

SpecConc == Init /\ [][NextConc]_vars

\* the process of inst stops (is killed, loses power) at one of its awaits:
\* the filesystem calls the method had still to make are never made
Stop(inst) ==
    /\ pc[inst] \in {"find", "delete", "save"}
    /\ pc' = [pc EXCEPT ![inst] = "stopped"]
    /\ UNCHANGED <<files, created, ret, cur>>
    /\ UNCHANGED <<regVars, memVars>>

NextCrash ==
    \/ NextConc
    \/ \E i \in Instances : Stop(i)

SpecCrash == Init /\ [][NextCrash]_vars

----------------------------------------------------------------------------
\* ---- SpecReg: the methods of InstanceManager, one call after the other ----
applyPlan(file, plan) == IF plan.write THEN saveRegistry(plan.doc) ELSE file

\* updateStatus run to completion: an instance without entry registers
\* (load, save) and updateStatus starts again
updateStatusRun(file, id, status, t) ==
    LET doc == loadRegistry(file)
        registered == IF doc.instances[id].present THEN file
                      ELSE applyPlan(file, registerBody(doc, id, t))
    IN  applyPlan(registered, updateStatusBody(loadRegistry(registered), id, status, t))

\* goOffline run to completion
goOfflineRun(file, id, t) ==
    LET updated == updateStatusRun(file, id, "offline", t)
    IN  applyPlan(updated, goOfflineBody(loadRegistry(updated), id, t))

\* the paths in the order of their last touch
touch(list, filePath) == Append(without(list, filePath), filePath)

Tick(d) ==
    /\ ticks < MaxTicks
    /\ now' = now + d
    /\ ticks' = ticks + 1
    /\ UNCHANGED <<registry, inbox, instanceId, heartbeatInterval, thr, out, ncalls, touched>>
    /\ UNCHANGED <<taskVars, memVars>>

register(p) ==
    /\ ncalls < MaxRegOps
    /\ registry' = applyPlan(registry, registerBody(loadRegistry(registry), instanceId[p], now))
    /\ out' = RegDone("register", p, instanceId[p], NoRegArg, "value", {}, <<>>, {})
    /\ touched' = [touched EXCEPT ![instanceId[p]] = <<>>]
    /\ ncalls' = ncalls + 1
    /\ UNCHANGED <<inbox, now, ticks, instanceId, heartbeatInterval, thr>>
    /\ UNCHANGED <<taskVars, memVars>>

updateStatus(p, status) ==
    /\ ncalls < MaxRegOps
    /\ registry' = updateStatusRun(registry, instanceId[p], status, now)
    /\ out' = RegDone("updateStatus", p, instanceId[p], RegArg(status, "none", "none", "none", "none"),
                      "void", {}, <<>>, {})
    /\ touched' = IF loadRegistry(registry).instances[instanceId[p]].present THEN touched
                  ELSE [touched EXCEPT ![instanceId[p]] = <<>>]
    /\ ncalls' = ncalls + 1
    /\ UNCHANGED <<inbox, now, ticks, instanceId, heartbeatInterval, thr>>
    /\ UNCHANGED <<taskVars, memVars>>

heartbeat(p) ==
    /\ ncalls < MaxRegOps
    /\ registry' = applyPlan(registry, heartbeatBody(loadRegistry(registry), instanceId[p], now))
    /\ out' = RegDone("heartbeat", p, instanceId[p], NoRegArg, "void", {}, <<>>, {})
    /\ ncalls' = ncalls + 1
    /\ UNCHANGED <<inbox, now, ticks, instanceId, heartbeatInterval, thr, touched>>
    /\ UNCHANGED <<taskVars, memVars>>

goOffline(p) ==
    /\ ncalls < MaxRegOps
    /\ heartbeatInterval' = [heartbeatInterval EXCEPT ![p] = FALSE]
    /\ registry' = goOfflineRun(registry, instanceId[p], now)
    /\ out' = RegDone("goOffline", p, instanceId[p], NoRegArg, "void", {}, <<>>, {})
    /\ touched' = IF loadRegistry(registry).instances[instanceId[p]].present THEN touched
                  ELSE [touched EXCEPT ![instanceId[p]] = <<>>]
    /\ ncalls' = ncalls + 1
    /\ UNCHANGED <<inbox, now, ticks, instanceId, thr>>
    /\ UNCHANGED <<taskVars, memVars>>

touchFile(p, filePath) ==
    /\ ncalls < MaxRegOps
    /\ registry' = applyPlan(registry,
                             touchFileBody(loadRegistry(registry), instanceId[p], filePath, now))
    /\ out' = RegDone("touchFile", p, instanceId[p], RegArg("none", "none", filePath, "none", "none"),
                      "void", {}, <<>>, {})
    /\ touched' = IF loadRegistry(registry).instances[instanceId[p]].present
                  THEN [touched EXCEPT ![instanceId[p]] = touch(@, filePath)]
                  ELSE touched
    /\ ncalls' = ncalls + 1
    /\ UNCHANGED <<inbox, now, ticks, instanceId, heartbeatInterval, thr>>
    /\ UNCHANGED <<taskVars, memVars>>

waitForTask(p, taskId) ==
    /\ ncalls < MaxRegOps
    /\ registry' = applyPlan(registry,
                             waitForTaskBody(loadRegistry(registry), instanceId[p], taskId))
    /\ out' = RegDone("waitForTask", p, instanceId[p], RegArg("none", taskId, "none", "none", "none"),
                      "void", {}, <<>>, {})
    /\ ncalls' = ncalls + 1
    /\ UNCHANGED <<inbox, now, ticks, instanceId, heartbeatInterval, thr, touched>>
    /\ UNCHANGED <<taskVars, memVars>>

clearWait(p, taskId) ==
    /\ ncalls < MaxRegOps
    /\ registry' = applyPlan(registry,
                             clearWaitBody(loadRegistry(registry), instanceId[p], taskId))
    /\ out' = RegDone("clearWait", p, instanceId[p], RegArg("none", taskId, "none", "none", "none"),
                      "void", {}, <<>>, {})
    /\ ncalls' = ncalls + 1
    /\ UNCHANGED <<inbox, now, ticks, instanceId, heartbeatInterval, thr, touched>>
    /\ UNCHANGED <<taskVars, memVars>>

logActivity(p, action) ==
    /\ ncalls < MaxRegOps
    /\ registry' = applyPlan(registry,
                             logActivityBody(loadRegistry(registry), instanceId[p], action, now))
    /\ out' = RegDone("logActivity", p, instanceId[p], RegArg("none", "none", "none", action, "none"),
                      "void", {}, <<>>, {})
    /\ ncalls' = ncalls + 1
    /\ UNCHANGED <<inbox, now, ticks, instanceId, heartbeatInterval, thr, touched>>
    /\ UNCHANGED <<taskVars, memVars>>

activeInstances(p) ==
    /\ ncalls < MaxRegOps
    /\ out' = RegDone("getActiveInstances", p, instanceId[p], NoRegArg, "value",
                      getActiveInstances(loadRegistry(registry), now), <<>>, {})
    /\ ncalls' = ncalls + 1
    /\ UNCHANGED <<registry, inbox, now, ticks, instanceId, heartbeatInterval, thr, touched>>
    /\ UNCHANGED <<taskVars, memVars>>

\* InstanceManager.sendMessage: one file per message, named after a fresh id
sendMessage(p, to) ==
    /\ ncalls < MaxRegOps
    /\ \E m \in MessageIds :
         /\ ~inbox[m].exists
         /\ inbox' = [inbox EXCEPT ![m] = Message(instanceId[p], to, FALSE, now)]
         /\ out' = RegDone("sendMessage", p, instanceId[p], NoRegArg, "value", {}, <<>>, {m})
    /\ ncalls' = ncalls + 1
    /\ UNCHANGED <<registry, now, ticks, instanceId, heartbeatInterval, thr, touched>>
    /\ UNCHANGED <<taskVars, memVars>>

\* InstanceManager.markMessageRead: the first file whose name starts with
\* the message id is rewritten with read = true
markMessageRead(p, messageId) ==
    /\ ncalls < MaxRegOps
    /\ LET found == {m \in MessageIds :
                        /\ inbox[m].exists
                        /\ startsWith(fileName(m, inbox[m].to), chars(messageId))}
       IN  IF found = {}
           THEN inbox' = inbox
           ELSE \E m \in found : inbox' = [inbox EXCEPT ![m].read = TRUE]
    /\ out' = RegDone("markMessageRead", p, instanceId[p], NoRegArg, "void", {}, <<>>,
                      {messageId})
    /\ ncalls' = ncalls + 1
    /\ UNCHANGED <<registry, now, ticks, instanceId, heartbeatInterval, thr, touched>>
    /\ UNCHANGED <<taskVars, memVars>>

\* the orders in which messages.sort((a, b) => b.timestamp.localeCompare(
\* a.timestamp)) may leave the messages of set (readdir fixes no order)
newestFirst(box, set) ==
    {s \in [1..Cardinality(set) -> set] :
        /\ \A j, k \in 1..Cardinality(set) : s[j] = s[k] => j = k
        /\ \A j, k \in 1..Cardinality(set) :
              j < k => box[s[j]].timestamp >= box[s[k]].timestamp}

\* InstanceManager.getUnreadMessages
getUnreadMessages(p) ==
    /\ ncalls < MaxRegOps
    /\ \E s \in newestFirst(inbox, unreadMessages(inbox, instanceId[p])) :
         out' = [RegDone("getUnreadMessages", p, instanceId[p], NoRegArg, "value", {}, <<>>,
                         unreadMessages(inbox, instanceId[p])) EXCEPT !.list = s]
    /\ ncalls' = ncalls + 1
    /\ UNCHANGED <<registry, inbox, now, ticks, instanceId, heartbeatInterval, thr, touched>>
    /\ UNCHANGED <<taskVars, memVars>>

\* the files cleanupOldMessages unlinks: timestamp before the cutoff and read
MillisPerDay == 24 * 60 * 60 * 1000
cleanedOld(box, maxAgeDays, t) ==
    {m \in MessageIds :
        /\ box[m].exists
        /\ box[m].timestamp < t - maxAgeDays * MillisPerDay}
cleaned(box, maxAgeDays, t) ==
    {m \in MessageIds :
        /\ box[m].exists
        /\ endsWith(fileName(m, box[m].to), chars(".yaml"))
        /\ box[m].timestamp < t - maxAgeDays * MillisPerDay
        /\ box[m].read}

\* InstanceManager.cleanupOldMessages
cleanupOldMessages(p, maxAgeDays) ==
    /\ ncalls < MaxRegOps
    /\ inbox' = [m \in MessageIds |->
                    IF m \in cleaned(inbox, maxAgeDays, now) THEN NoMessage ELSE inbox[m]]
    /\ out' = RegDone("cleanupOldMessages", p, instanceId[p], NoRegArg, "value", {}, <<>>,
                      cleaned(inbox, maxAgeDays, now))
    /\ ncalls' = ncalls + 1
    /\ UNCHANGED <<registry, now, ticks, instanceId, heartbeatInterval, thr, touched>>
    /\ UNCHANGED <<taskVars, memVars>>

\* InstanceManager.recoverSession
recoverSession(p, previousInstanceId) ==
    /\ ncalls < MaxRegOps
    /\ LET previousInstance == loadRegistry(registry).instances[previousInstanceId]
       IN  IF ~previousInstance.present
           THEN /\ out' = RegDone("recoverSession", p, instanceId[p],
                                  RegArg("none", "none", "none", "none", previousInstanceId),
                                  "null", {}, <<>>, {})
                /\ UNCHANGED <<registry, instanceId, touched>>
           ELSE /\ out' = RegDone("recoverSession", p, previousInstanceId,
                                  RegArg("none", "none", "none", "none", previousInstanceId),
                                  "value", {}, previousInstance.waiting_for,
                                  unreadMessages(inbox, previousInstanceId))
                /\ instanceId' = [instanceId EXCEPT ![p] = previousInstanceId]
                /\ registry' = applyPlan(registry, registerBody(loadRegistry(registry),
                                                                previousInstanceId, now))
                /\ touched' = [touched EXCEPT ![previousInstanceId] = <<>>]
    /\ ncalls' = ncalls + 1
    /\ UNCHANGED <<inbox, now, ticks, heartbeatInterval, thr>>
    /\ UNCHANGED <<taskVars, memVars>>

NextReg ==
    \/ \E d \in TickSteps : Tick(d)
    \/ \E p \in Instances : register(p)
    \/ \E p \in Instances, s \in StatusArgs : updateStatus(p, s)
    \/ \E p \in Instances : heartbeat(p)
    \/ \E p \in Instances : goOffline(p)
    \/ \E p \in Instances, f \in TouchPaths : touchFile(p, f)
    \/ \E p \in Instances, t \in WaitIds : waitForTask(p, t)
    \/ \E p \in Instances, t \in WaitIds : clearWait(p, t)
    \/ \E p \in Instances, a \in LogActions : logActivity(p, a)
    \/ \E p \in Instances : activeInstances(p)
    \/ \E p \in Instances, to \in Recipients : sendMessage(p, to)
    \/ \E p \in Instances, m \in MessageIds : markMessageRead(p, m)
    \/ \E p \in Instances, prev \in Instances : recoverSession(p, prev)

\* SpecReg starts from the state after construction or from a document
\* earlier calls have left
InitReg ==
    /\ TaskFresh
    /\ MemFresh
    /\ RegFresh
    /\ \/ registry = MissingFile /\ touched = [id \in Instances |-> <<>>]
       \/ \E seed \in Seeds :
            /\ registry = saveRegistry(SeedDoc(ActivityCap, seed[1], seed[2]))
            /\ touched = [id \in Instances |-> IF id = "i1" THEN SeedPaths ELSE <<>>]

SpecReg == InitReg /\ [][NextReg]_vars

\* ---- SpecFacade: the methods of ClaudeMemory, called by one process ----
\* delegate(input): the targets of the tasks delegated
FacadeTargets ==
    {[capabilities |-> {}, specific_instance |-> NoInstance],
     [capabilities |-> {"x"}, specific_instance |-> "i2"]}
\* the MemoryStore of the ClaudeMemory object of process p
storeOf(p) == IF p = "i1" THEN "s1" ELSE "s2"
\* what a facade call leaves in out
facadeDone(op, p) == RegDone(op, p, instanceId[p], NoRegArg, "void", {}, <<>>, {})

\* ClaudeMemory.init: store.init (index.json and timeline.json are written
\* when they do not exist), instances.register, instances.startHeartbeat
init(p) ==
    /\ ncalls < MaxFacadeOps
    /\ IF indexFile.kind = "missing"
       THEN /\ indexFile' = IndexFile("json", createEmptyIndex)
            /\ cache' = [cache EXCEPT ![storeOf(p)] = Cached(createEmptyIndex)]
       ELSE UNCHANGED <<indexFile, cache>>
    /\ IF timelineFile.kind = "missing"
       THEN /\ timelineFile' = TimelineFile("json", <<>>)
            /\ tcache' = [tcache EXCEPT ![storeOf(p)] = CachedTimeline(<<>>)]
       ELSE UNCHANGED <<timelineFile, tcache>>
    /\ registry' = applyPlan(registry, registerBody(loadRegistry(registry), instanceId[p], now))
    /\ touched' = [touched EXCEPT ![instanceId[p]] = <<>>]
    /\ heartbeatInterval' = [heartbeatInterval EXCEPT ![p] = TRUE]
    /\ out' = facadeDone("init", p)
    /\ ncalls' = ncalls + 1
    /\ UNCHANGED <<inbox, now, ticks, instanceId, thr>>
    /\ UNCHANGED <<memories, clock, mret, mcalls, mthr>>
    /\ UNCHANGED taskVars

\* ClaudeMemory.delegate: tasks.createTask, instances.waitForTask,
\* instances.logActivity
delegate(p, target) ==
    /\ ncalls < MaxFacadeOps
    /\ \E id \in TaskIds \ created :
         LET task == NewTask(id, p, target)
             waiting == applyPlan(registry,
                                  waitForTaskBody(loadRegistry(registry), instanceId[p], id))
         IN  /\ files' = saveTask(files, task, "pending")
             /\ ret' = Returned("createTask", p, id, "task", task, NoErr, {})
             /\ created' = created \cup {id}
             /\ registry' = applyPlan(waiting,
                                      logActivityBody(loadRegistry(waiting), instanceId[p],
                                                      "delegated_task", now))
    /\ out' = facadeDone("delegate", p)
    /\ ncalls' = ncalls + 1
    /\ UNCHANGED <<inbox, now, ticks, instanceId, heartbeatInterval, thr, touched>>
    /\ UNCHANGED <<pc, cur>>
    /\ UNCHANGED memVars

\* ClaudeMemory.acknowledgeTask: tasks.acknowledgeResult, and when that has
\* not raised, instances.clearWait
acknowledgeTask(p, taskId) ==
    /\ ncalls < MaxFacadeOps
    /\ Runnable("acknowledgeResult", p, taskId, NoArg)
    /\ LET run == RunMethod(files, "acknowledgeResult", p, taskId, NoArg)
       IN  /\ files' = run.fs
           /\ ret' = run.ret
           /\ registry' = IF run.ret.kind = "error" THEN registry
                          ELSE applyPlan(registry,
                                         clearWaitBody(loadRegistry(registry),
                                                       instanceId[p], taskId))
    /\ out' = facadeDone("acknowledgeTask", p)
    /\ ncalls' = ncalls + 1
    /\ UNCHANGED <<inbox, now, ticks, instanceId, heartbeatInterval, thr, touched>>
    /\ UNCHANGED <<created, pc, cur>>
    /\ UNCHANGED memVars

\* ClaudeMemory.setStatus: instances.updateStatus
setStatus(p, status) ==
    /\ ncalls < MaxFacadeOps
    /\ registry' = updateStatusRun(registry, instanceId[p], status, now)
    /\ touched' = IF loadRegistry(registry).instances[instanceId[p]].present THEN touched
                  ELSE [touched EXCEPT ![instanceId[p]] = <<>>]
    /\ out' = facadeDone("setStatus", p)
    /\ ncalls' = ncalls + 1
    /\ UNCHANGED <<inbox, now, ticks, instanceId, heartbeatInterval, thr>>
    /\ UNCHANGED <<taskVars, memVars>>

\* ClaudeMemory.recoverSession: instances.recoverSession
facadeRecoverSession(p, previousInstanceId) ==
    /\ ncalls < MaxFacadeOps
    /\ recoverSession(p, previousInstanceId)

NextFacade ==
    \/ init("i1")
    \/ \E target \in FacadeTargets : delegate("i1", target)
    \/ \E id \in TaskIds : acknowledgeTask("i1", id)
    \/ \E status \in {"active", "idle", "waiting", "offline"} : setStatus("i1", status)
    \/ facadeRecoverSession("i1", "i1")

\* the state init() of process i1 leaves in an empty project directory
InitFacade ==
    /\ TaskFresh
    /\ now = 0
    /\ ticks = 0
    /\ instanceId = [p \in Instances |-> p]
    /\ heartbeatInterval = [p \in Instances |-> p = "i1"]
    /\ thr = [t \in Threads |-> IdleThread]
    /\ out = NoRegDone
    /\ ncalls = 0
    /\ inbox = [m \in MessageIds |-> NoMessage]
    /\ registry = applyPlan(MissingFile, registerBody(loadRegistry(MissingFile), "i1", 0))
    /\ touched = [id \in Instances |-> <<>>]
    /\ memories = <<>>
    /\ indexFile = IndexFile("json", createEmptyIndex)
    /\ cache = [s \in Stores |-> IF s = "s1" THEN Cached(createEmptyIndex) ELSE NoCache]
    /\ clock = 0
    /\ mret = NoMemDone
    /\ mcalls = 0
    /\ mthr = [s \in Stores |-> IdleMemThread]
    /\ timelineFile = TimelineFile("json", <<>>)
    /\ tcache = [s \in Stores |-> IF s = "s1" THEN CachedTimeline(<<>>) ELSE NoTimeline]

SpecFacade == InitFacade /\ [][NextFacade]_vars

\* ---- SpecInbox: the inbox methods, one call after the other, started on
\* the inbox earlier sendMessage and markMessageRead calls have left ----
MaxAgeDays == {0 - 1, 0, 7}                \* cleanupOldMessages(maxAgeDays)
InboxSeeds ==
    {[m \in MessageIds |-> NoMessage],
     [m \in MessageIds |-> IF m = "msg_a" THEN Message("i2", "i1", FALSE, 0) ELSE NoMessage],
     [m \in MessageIds |-> IF m = "msg_a" THEN Message("i2", "i1", TRUE, 0)
                           ELSE Message("i2", "i1", FALSE, 0)]}
NextInbox ==
    \/ \E d \in TickSteps : Tick(d)
    \/ \E p \in Instances, to \in Recipients : sendMessage(p, to)
    \/ \E p \in Instances, m \in MessageIds : markMessageRead(p, m)
    \/ \E p \in Instances : getUnreadMessages(p)
    \/ \E p \in Instances, days \in MaxAgeDays : cleanupOldMessages(p, days)

InitInbox ==
    /\ TaskFresh
    /\ MemFresh
    /\ ManagerFresh
    /\ inbox \in InboxSeeds
    /\ registry = MissingFile
    /\ touched = [id \in Instances |-> <<>>]

SpecInbox == InitInbox /\ [][NextInbox]_vars

\* ---- SpecLoad: the same calls on any content of the registry file ----
\* heartbeat sections a document may hold: complete, or lacking a threshold
Heartbeats ==
    {createEmptyRegistry.heartbeat,
     [createEmptyRegistry.heartbeat EXCEPT !.stale_after_seconds = UndefinedNum],
     [createEmptyRegistry.heartbeat EXCEPT !.offline_after_seconds = UndefinedNum]}
\* the registry file is missing, empty, not YAML, or a document that has
\* any of its three fields
FileContents ==
    {MissingFile,
     RegistryFile("empty", FALSE, FALSE, FALSE, createEmptyRegistry),
     RegistryFile("invalid", FALSE, FALSE, FALSE, createEmptyRegistry)}
    \cup {RegistryFile("doc", hasI, hasH, hasR,
                        [createEmptyRegistry EXCEPT
                            !.instances = IF hasI THEN SeedDoc(1, StaleSeconds, <<>>).instances
                                          ELSE @,
                            !.heartbeat = IF hasH THEN hb ELSE @,
                            !.recent_activity =
                                IF hasR THEN SeedDoc(1, StaleSeconds, <<>>).recent_activity
                                ELSE @]) :
             hasI \in BOOLEAN, hasH \in BOOLEAN, hasR \in BOOLEAN, hb \in Heartbeats}

InitLoad ==
    /\ TaskFresh
    /\ MemFresh
    /\ RegFresh
    /\ registry \in FileContents
    /\ touched = [id \in Instances |->
                     IF registry.kind = "doc" /\ registry.has_instances
                     THEN registry.doc.instances[id].files_touched ELSE <<>>]

SpecLoad == InitLoad /\ [][NextReg]_vars

----------------------------------------------------------------------------
\* ---- properties ----
Terminal == {"completed", "failed"}
IdsOf(tasks) == {t.id : t \in tasks}

\* the bucket a status belongs to
StatusBucket(status) ==
    CASE status = "pending" -> "pending"
      [] status \in {"claimed", "in_progress"} -> "in_progress"
      [] status = "completed" -> "completed"
      [] status = "failed" -> "failed"
      [] OTHER -> Undefined

\* C1: two claimTask calls run concurrently by two instances on the same
\* pending task never both return the claimed task.
C1_OneClaimWins ==
    \A i, j \in Instances :
        (i # j /\ cur[i].ret.op = "claimTask" /\ cur[j].ret.op = "claimTask"
               /\ cur[i].ret.id = cur[j].ret.id)
        => ~(cur[i].ret.kind = "task" /\ cur[j].ret.kind = "task")

\* C2: claimTask on a pending task returns it claimed by the caller and moves
\* the file from pending to in_progress, after which a second claimTask by any
\* instance raises; claimTask on a non-pending task raises an error naming the
\* id and the actual status and leaves every task file unchanged.
C2_ClaimTwice ==
    [][(ret'.op = "claimTask" /\ findTask(files, ret'.id) # Null) =>
        IF findTask(files, ret'.id).status = "pending"
        THEN /\ ret'.kind = "task"
             /\ ret'.task.status = "claimed"
             /\ ret'.task.claimed_by = ret'.by
             /\ files'["pending"][ret'.id] = Null
             /\ files'["in_progress"][ret'.id] = ret'.task
             /\ \A j \in Instances :
                  LET second == RunMethod(files', "claimTask", j, ret'.id, NoArg)
                  IN  /\ second.ret.kind = "error"
                      /\ second.ret.err = [status |-> "claimed", id |-> ret'.id,
                                           text |-> "is not pending"]
                      /\ second.fs = files'
        ELSE /\ ret'.kind = "error"
             /\ ret'.err = [status |-> findTask(files, ret'.id).status, id |-> ret'.id,
                            text |-> "is not pending"]
             /\ files' = files
      ]_vars

C2_Witness ==
    /\ ret.op = "claimTask" /\ ret.kind = "error" /\ ret.err.status = "claimed"
    /\ files["in_progress"][ret.id] # Null
    /\ files["in_progress"][ret.id].claimed_by # NoInstance

\* C3: after every completed operation each created task has a file in exactly
\* one bucket, and the status in the file agrees with the bucket.
C3_OneBucket ==
    \A id \in created :
        /\ Cardinality({b \in BucketSet : files[b][id] # Null}) = 1
        /\ \A b \in BucketSet :
             files[b][id] # Null => StatusBucket(files[b][id].status) = b

\* C4: the successive statuses of a task follow only the edges of the state
\* machine; a completed or failed task gets no further status_history entry,
\* and no task is ever cancelled.
StatusEdges ==
    {<<"pending", "claimed">>, <<"claimed", "in_progress">>, <<"claimed", "completed">>,
     <<"in_progress", "completed">>, <<"pending", "failed">>, <<"claimed", "failed">>,
     <<"in_progress", "failed">>}

C4_StatusEdges ==
    \A b \in BucketSet, id \in TaskIds :
        files[b][id] # Null =>
            LET h == files[b][id].status_history
            IN  /\ \A k \in 1..(Len(h) - 1) : <<h[k].status, h[k + 1].status>> \in StatusEdges
                /\ files[b][id].status = h[Len(h)].status
                /\ files[b][id].status # "cancelled"

\* C5 (as stated): getClaimableTasks returns a pending task iff it is open to
\* anyone, or names the caller, or the caller's capabilities cover its
\* required capabilities, each sufficient on its own.
ClaimableAsStated(task, inst, capabilities) ==
    \/ task.target.capabilities = {} /\ task.target.specific_instance = NoInstance
    \/ task.target.specific_instance = inst
    \/ task.target.capabilities \subseteq capabilities

ClaimableAmended(task, inst, capabilities) ==
    \/ task.target.capabilities = {} /\ task.target.specific_instance = NoInstance
    \/ task.target.specific_instance = inst
    \/ /\ task.target.capabilities \subseteq capabilities
       /\ task.target.specific_instance = NoInstance \/ task.target.capabilities = {}

C6_OtherTargetHidden ==
    ret.op = "getClaimableTasks" =>
        \A t \in ret.list :
            ~(/\ t.target.capabilities = {}
              /\ t.target.specific_instance \notin {NoInstance, ret.by})

\* C7: startTask on a task that is not claimed, updateProgress on a task that
\* is not in_progress and completeTask on a task that is neither claimed nor
\* in_progress raise an error and change no task file.
Precondition(op, status) ==
    CASE op = "startTask" -> status = "claimed"
      [] op = "updateProgress" -> status = "in_progress"
      [] op = "completeTask" -> status \in {"claimed", "in_progress"}

C7_PreconditionRaises ==
    [][(/\ ret'.op \in {"startTask", "updateProgress", "completeTask"}
        /\ findTask(files, ret'.id) # Null
        /\ ~Precondition(ret'.op, findTask(files, ret'.id).status))
       => (ret'.kind = "error" /\ ret'.err.id = ret'.id /\ files' = files)
      ]_vars

C7_Witness ==
    /\ ret.op = "completeTask" /\ ret.kind = "error" /\ ret.err.status = "pending"
    /\ files["pending"][ret.id] # Null

\* C8: when no bucket holds a file for the id, claimTask, startTask,
\* completeTask, failTask and getTask return null, updateProgress and
\* acknowledgeResult return normally, and no task file is created or changed.
C8_NotFound ==
    [][(/\ ret'.op \in {"claimTask", "startTask", "completeTask", "failTask", "getTask",
                        "updateProgress", "acknowledgeResult"}
        /\ findTask(files, ret'.id) = Null)
       => /\ files' = files
          /\ ret'.kind = IF ret'.op \in {"updateProgress", "acknowledgeResult"}
                         THEN "void" ELSE "null"
      ]_vars

C8_Witness ==
    /\ ret.op = "failTask" /\ ret.kind = "null"
    /\ \A b \in BucketSet : files[b][ret.id] = Null

\* C9: checkCompletedWaits returns exactly the tasks requested by the caller
\* that are completed or failed and not acknowledged.
C9_CompletedWaits ==
    ret.op = "checkCompletedWaits" =>
        IdsOf(ret.list) =
            {id \in TaskIds :
                LET t == findTask(files, id)
                IN  /\ t # Null
                    /\ t.wait_handle.requester = ret.by
                    /\ t.status \in Terminal
                    /\ ~t.wait_handle.acknowledged}

\* C10: after acknowledgeResult on a completed or failed task, the task is
\* acknowledged and is no longer among the requester's checkCompletedWaits.
C10_AckRemoves ==
    (/\ ret.op = "acknowledgeResult"
     /\ findTask(files, ret.id) # Null
     /\ findTask(files, ret.id).status \in Terminal)
    => LET t == findTask(files, ret.id)
       IN  /\ t.wait_handle.acknowledged
           /\ ret.id \notin IdsOf(checkCompletedWaits(files, t.wait_handle.requester))

----------------------------------------------------------------------------
\* ---- SpecRegConc: one step per loadRegistry and per saveRegistry ----
\* A method computes its change right after loadRegistry resolves (the
\* timestamp is taken there) and awaits saveRegistry afterwards.
main(p) == <<p, "main">>
timer(p) == <<p, "timer">>
ConcRegCalls ==
    {<<"register", NoRegArg>>, <<"heartbeat", NoRegArg>>, <<"goOffline", NoRegArg>>,
     <<"updateStatus", RegArg("idle", "none", "none", "none", "none")>>,
     <<"touchFile", RegArg("none", "none", "g1", "none", "none")>>,
     <<"waitForTask", RegArg("none", "t1", "none", "none", "none")>>,
     <<"clearWait", RegArg("none", "t1", "none", "none", "none")>>,
     <<"logActivity", RegArg("none", "none", "none", "note", "none")>>}

\* the change a method makes to the document it has just loaded
bodyOf(op, arg, doc, id, t) ==
    CASE op = "register" -> registerBody(doc, id, t)
      [] op = "updateStatus" -> updateStatusBody(doc, id, arg.status, t)
      [] op = "goOffline" -> updateStatusBody(doc, id, "offline", t)
      [] op = "heartbeat" -> heartbeatBody(doc, id, t)
      [] op = "touchFile" -> touchFileBody(doc, id, arg.filePath, t)
      [] op = "waitForTask" -> waitForTaskBody(doc, id, arg.taskId)
      [] op = "clearWait" -> clearWaitBody(doc, id, arg.taskId)
      [] op = "logActivity" -> logActivityBody(doc, id, arg.action, t)

returned(th) == [th EXCEPT !.op = "none", !.arg = NoRegArg, !.phase = "idle",
                           !.buf = createEmptyRegistry]

\* InstanceManager.startHeartbeat: setInterval(() => this.heartbeat())
startHeartbeat(p) ==
    /\ ~heartbeatInterval[p]
    /\ heartbeatInterval' = [heartbeatInterval EXCEPT ![p] = TRUE]
    /\ UNCHANGED <<registry, inbox, now, ticks, instanceId, thr, out, ncalls, touched>>
    /\ UNCHANGED <<taskVars, memVars>>

\* the interval timer of p fires and calls heartbeat()
TimerCall(p) ==
    /\ heartbeatInterval[p]
    /\ ncalls < MaxRegCalls
    /\ thr[timer(p)].phase = "idle"
    /\ thr' = [thr EXCEPT ![timer(p)] =
                  Thread("heartbeat", NoRegArg, "load", createEmptyRegistry, FALSE, TRUE)]
    /\ ncalls' = ncalls + 1
    /\ UNCHANGED <<registry, inbox, now, ticks, instanceId, heartbeatInterval, out, touched>>
    /\ UNCHANGED <<taskVars, memVars>>

\* process p calls a method; goOffline starts with stopHeartbeat()
RegCall(p, op, arg) ==
    /\ ncalls < MaxRegCalls
    /\ thr[main(p)].phase = "idle"
    /\ thr' = [thr EXCEPT ![main(p)] =
                  Thread(op, arg, "load", createEmptyRegistry,
                         IF op \in {"register", "updateStatus", "goOffline"} THEN FALSE
                         ELSE @.offline,
                         TRUE)]
    /\ heartbeatInterval' = IF op = "goOffline"
                            THEN [heartbeatInterval EXCEPT ![p] = FALSE]
                            ELSE heartbeatInterval
    /\ ncalls' = ncalls + 1
    /\ UNCHANGED <<registry, inbox, now, ticks, instanceId, out, touched>>
    /\ UNCHANGED <<taskVars, memVars>>

\* await this.loadRegistry() resolves: of the method itself (load), of the
\* register() updateStatus calls for an instance without entry (reg-load),
\* of the second half of goOffline (off-load)
RegLoadStep(t) ==
    /\ thr[t].phase \in {"load", "reg-load", "off-load"}
    /\ LET th == thr[t]
           id == instanceId[t[1]]
           doc == loadRegistry(registry)
           plan == CASE th.phase = "load" -> bodyOf(th.op, th.arg, doc, id, now)
                     [] th.phase = "reg-load" -> registerBody(doc, id, now)
                     [] th.phase = "off-load" -> goOfflineBody(doc, id, now)
       IN  IF th.phase = "load" /\ th.op \in {"updateStatus", "goOffline"}
              /\ ~doc.instances[id].present
           THEN /\ thr' = [thr EXCEPT ![t].phase = "reg-load"]
                /\ out' = out
           ELSE IF ~plan.write
           THEN /\ thr' = [thr EXCEPT ![t] = returned(th)]
                /\ out' = RegDone(th.op, t[1], id, th.arg, "void", {}, <<>>, {})
           ELSE /\ thr' = [thr EXCEPT ![t].buf = plan.doc,
                                      ![t].phase = CASE th.phase = "load" -> "save"
                                                     [] th.phase = "reg-load" -> "reg-save"
                                                     [] th.phase = "off-load" -> "off-save"]
                /\ out' = out
    /\ UNCHANGED <<registry, inbox, now, ticks, instanceId, heartbeatInterval, ncalls, touched>>
    /\ UNCHANGED <<taskVars, memVars>>

\* await this.saveRegistry(registry) resolves: the whole document is written
RegSaveStep(t) ==
    /\ thr[t].phase \in {"save", "reg-save", "off-save"}
    /\ registry' = saveRegistry(thr[t].buf)
    /\ LET th == thr[t]
       IN  IF th.phase = "reg-save"
           THEN /\ thr' = [thr EXCEPT ![t].phase = "load", ![t].buf = createEmptyRegistry]
                /\ out' = out
           ELSE IF th.phase = "save" /\ th.op = "goOffline"
           THEN /\ thr' = [thr EXCEPT ![t].phase = "off-load", ![t].buf = createEmptyRegistry]
                /\ out' = out
           ELSE /\ thr' = [thr EXCEPT ![t] = [returned(th) EXCEPT
                                                  !.offline = (th.op = "goOffline")]]
                /\ out' = RegDone(th.op, t[1], instanceId[t[1]], th.arg, "void", {}, <<>>, {})
    /\ UNCHANGED <<inbox, now, ticks, instanceId, heartbeatInterval, ncalls, touched>>
    /\ UNCHANGED <<taskVars, memVars>>

NextRegConc ==
    \/ \E d \in TickSteps : Tick(d)
    \/ \E p \in Instances : startHeartbeat(p)
    \/ \E p \in Instances : TimerCall(p)
    \/ \E p \in Instances, c \in ConcRegCalls : RegCall(p, c[1], c[2])
    \/ \E t \in Threads : RegLoadStep(t)
    \/ \E t \in Threads : RegSaveStep(t)

\* SpecRegConc starts from the state after construction or from the document
\* i1 has left after registering
InitRegConc ==
    /\ TaskFresh
    /\ MemFresh
    /\ RegFresh
    /\ registry \in {MissingFile, saveRegistry(SeedDoc(1, StaleSeconds, <<>>))}
    /\ touched = [id \in Instances |-> <<>>]

SpecRegConc == InitRegConc /\ [][NextRegConc]_vars

\* ---- SpecRegFair: i2, without entry, calls updateStatus while i1, whose
\* entry exists, heartbeats; no bound on the calls; a call that has started
\* takes its next step eventually (each process runs its own event loop) ----
FairCalls ==
    {<<"i1", "heartbeat", NoRegArg>>,
     <<"i2", "updateStatus", RegArg("idle", "none", "none", "none", "none")>>}
FairCall(p, op, arg) ==
    /\ thr[main(p)].phase = "idle"
    /\ thr' = [thr EXCEPT ![main(p)] =
                  Thread(op, arg, "load", createEmptyRegistry, FALSE, TRUE)]
    /\ UNCHANGED <<registry, inbox, now, ticks, instanceId, heartbeatInterval, out, ncalls,
                   touched>>
    /\ UNCHANGED <<taskVars, memVars>>

NextRegFair ==
    \/ \E d \in TickSteps : Tick(d)
    \/ \E c \in FairCalls : FairCall(c[1], c[2], c[3])
    \/ \E t \in Threads : RegLoadStep(t)
    \/ \E t \in Threads : RegSaveStep(t)

InitRegFair ==
    /\ TaskFresh
    /\ MemFresh
    /\ RegFresh
    /\ registry = saveRegistry(SeedDoc(1, StaleSeconds, <<>>))
    /\ touched = [id \in Instances |-> <<>>]

SpecRegFair ==
    /\ InitRegFair
    /\ [][NextRegFair]_vars
    /\ \A t \in Threads : WF_vars(RegLoadStep(t)) /\ WF_vars(RegSaveStep(t))

----------------------------------------------------------------------------
\* ---- the instance registry: properties ----
\* the entry the registry file holds for id, NoEntry when it holds none
storedIn(file, id) ==
    IF file.kind = "doc" /\ file.has_instances THEN file.doc.instances[id] ELSE NoEntry
stored(id) == storedIn(registry, id)
\* the activity log the registry file holds
storedActivity ==
    IF registry.kind = "doc" /\ registry.has_recent_activity THEN registry.doc.recent_activity
    ELSE <<>>
\* this step is a completed call of op
Called(op) == ncalls' = ncalls + 1 /\ out'.op = op
NoDuplicate(list) == \A j, k \in 1..Len(list) : list[j] = list[k] => j = k
Elements(list) == {list[k] : k \in 1..Len(list)}

\* C11: in any interleaving of the reads and writes of register, heartbeat,
\* updateStatus, touchFile, waitForTask, clearWait, logActivity and goOffline
\* calls, the last_activity the registry file holds for an instance never
\* decreases.
C11_LastActivityMonotonic ==
    [][\A id \in Instances :
          (stored(id).present /\ storedIn(registry', id).present) =>
              storedIn(registry', id).last_activity >= stored(id).last_activity]_vars

\* C12: an entry the registry file holds is in the file in every later
\* state: no step of any call of any instance removes it.
C12_EntryStays ==
    [][\A id \in Instances :
          stored(id).present => storedIn(registry', id).present]_vars

\* C13: once goOffline of a process has returned, and until that process
\* calls register, updateStatus or goOffline again, its entry has status
\* offline and its last_activity does not change, also when a heartbeat of
\* its timer had read the registry before and writes it afterwards (no
\* other process has made a call).
OnlyCaller(p) == \A t \in Threads : t[1] # p => ~thr[t].started
C13_OfflineStays ==
    [][\A p \in Instances :
          (OnlyCaller(p)' /\ thr'[main(p)].offline) =>
              /\ storedIn(registry', instanceId[p]).current_status = "offline"
              /\ thr[main(p)].offline =>
                    storedIn(registry', instanceId[p]).last_activity
                      = stored(instanceId[p]).last_activity]_vars

C22_UnreadForRecipient ==
    [][Called("getUnreadMessages") =>
         /\ Elements(out'.list) = {m \in MessageIds :
                                      inbox[m].exists /\ inbox[m].to = out'.id
                                          /\ ~inbox[m].read}
         /\ NoDuplicate(out'.list)
         /\ \A k \in 1..(Len(out'.list) - 1) :
               inbox[out'.list[k]].timestamp >= inbox[out'.list[k + 1]].timestamp]_vars

\* C14: after any sequence of register, logActivity, updateStatus, goOffline
\* and recoverSession calls by any instances, recent_activity has at most 100
\* entries and they are ordered newest first.
C14_ActivityBounded ==
    /\ Len(storedActivity) <= ActivityCap
    /\ \A k \in 1..(Len(storedActivity) - 1) :
         storedActivity[k].timestamp >= storedActivity[k + 1].timestamp

\* C15: updateStatus(s) by an instance without entry returns, whatever the
\* other instances write between its steps, and when it returns the
\* registry holds the entry of the instance with status s.
C15_UpdateStatusReturns ==
    /\ \A p \in Instances :
          (thr[main(p)].op = "updateStatus" /\ thr[main(p)].phase # "idle")
              ~> (thr[main(p)].phase = "idle")
    /\ [][\A p \in Instances :
            (thr[main(p)].op = "updateStatus" /\ thr'[main(p)].phase = "idle") =>
                /\ storedIn(registry', instanceId[p]).present
                /\ storedIn(registry', instanceId[p]).current_status
                      = thr[main(p)].arg.status]_vars

C17_WaitAndClear ==
    [][/\ (Called("waitForTask") /\ stored(out'.id).present) =>
            /\ storedIn(registry', out'.id).current_status = "waiting"
            /\ includes(storedIn(registry', out'.id).waiting_for, out'.arg.taskId)
       /\ (Called("clearWait") /\ stored(out'.id).present) =>
            /\ ~includes(storedIn(registry', out'.id).waiting_for, out'.arg.taskId)
            /\ storedIn(registry', out'.id).current_status =
                  IF storedIn(registry', out'.id).has_waiting /\ storedIn(registry', out'.id).waiting_for = <<>>
                  THEN "active" ELSE stored(out'.id).current_status]_vars
\* clearWait has left another task in waiting_for and the status waiting
C17_Witness ==
    /\ out.op = "clearWait"
    /\ stored(out.id).waiting_for # <<>>
    /\ ~includes(stored(out.id).waiting_for, out.arg.taskId)
    /\ stored(out.id).current_status = "waiting"

\* C18: recoverSession(p) returns null and leaves the registry and the
\* manager's instance id alone when the registry has no entry for p;
\* otherwise it returns the task ids of p's waiting_for and the unread
\* messages whose recipient is p, the manager's id becomes p and the registry
\* holds an entry for p with status active.
C18_RecoverSession ==
    [][Called("recoverSession") =>
         LET p == out'.arg.previousInstanceId
         IN  IF ~stored(p).present
             THEN out'.kind = "null" /\ registry' = registry /\ instanceId' = instanceId
             ELSE /\ out'.kind = "value"
                  /\ out'.waits = stored(p).waiting_for
                  /\ out'.msgs = {m \in MessageIds :
                                     inbox[m].exists /\ inbox[m].to = p /\ ~inbox[m].read}
                  /\ instanceId'[out'.proc] = p
                  /\ storedIn(registry', p).present
                  /\ storedIn(registry', p).current_status = "active"]_vars

\* C19: whatever the registry file holds (nothing, no text, text that is no
\* YAML, or a document lacking instances, recent_activity, heartbeat or a
\* threshold of heartbeat), the document a method reads is complete: the
\* fields the file has are kept, the instance map and the activity log it
\* lacks are empty and the thresholds it lacks have their defaults
\* (stale_after_seconds 300).
C19_CompleteDefault ==
    LET doc == loadRegistry(registry)
        isDoc == registry.kind = "doc"
    IN  /\ doc.heartbeat.interval_seconds.defined
        /\ doc.heartbeat.stale_after_seconds.defined
        /\ doc.heartbeat.offline_after_seconds.defined
        /\ (isDoc /\ registry.has_heartbeat
                  /\ registry.doc.heartbeat.stale_after_seconds.defined)
             \/ doc.heartbeat.stale_after_seconds = Num(StaleSeconds)
        /\ doc.instances = IF isDoc /\ registry.has_instances THEN registry.doc.instances
                           ELSE [id \in Instances |-> NoEntry]
        /\ doc.recent_activity =
              IF isDoc /\ registry.has_recent_activity THEN registry.doc.recent_activity
              ELSE <<>>

\* C20 (as stated): after any sequence of touchFile calls by a registered
\* instance, files_touched has no duplicate, at most 20 entries, and holds
\* the paths touched most recently.
C20_MostRecentlyTouched ==
    \A id \in Instances :
        stored(id).present =>
            /\ NoDuplicate(stored(id).files_touched)
            /\ Len(stored(id).files_touched) <= FilesCap
            /\ Elements(stored(id).files_touched)
                 = Elements(sliceLast(touched[id], FilesCap))
\* C20 (amended): after touchFile(f) by a registered instance, files_touched
\* has no duplicate and at most 20 entries and contains f; touching a path
\* that is in the list leaves the list as it is, touching another path
\* appends it and drops the first entry of the list, the path added
\* earliest, when the list held 20.
C20_MostRecentlyAdded ==
    [][(Called("touchFile") /\ stored(out'.id).present) =>
         LET old == stored(out'.id).files_touched
             new == storedIn(registry', out'.id).files_touched
             f == out'.arg.filePath
         IN  /\ NoDuplicate(new)
             /\ Len(new) <= FilesCap
             /\ includes(new, f)
             /\ includes(old, f) => new = old
             /\ ~includes(old, f) =>
                  new = (IF Len(old) = FilesCap THEN Tail(old) ELSE old) \o <<f>>]_vars
\* touchFile of a new path has dropped the first of 20 paths
C20_Witness ==
    /\ out.op = "touchFile"
    /\ stored(out.id).present
    /\ Len(stored(out.id).files_touched) = FilesCap
    /\ stored(out.id).files_touched[FilesCap] = out.arg.filePath
    /\ stored(out.id).files_touched[1] # SeedPaths[1]

----------------------------------------------------------------------------
\* ---- SpecMem: the methods of MemoryStore, one call after the other ----
\* the strings passed as memory id: the ids of the first two memories, the
\* empty string, a memory type, the year of the file names, the first eight
\* characters of an id, an id no memory has, a path
MemoryArgs ==
    {uuid(1), uuid(2), <<>>, str("fact"), str("2026"), <<Tok("hex8", 1)>>,
     str("nonexistent"), str("..") \o str("/") \o str("memories")}
CreateInputs ==
    {CreateMemoryInput("fact", <<>>, <<>>, <<>>, UndefinedNum, UndefinedNum),
     CreateMemoryInput("decision", <<"tag1">>, <<"a.ts">>, <<>>, Num(70), Num(100)),
     CreateMemoryInput("fact", <<>>, <<>>, <<>>, Num(150), Num(0 - 20)),
     CreateMemoryInput("fact", <<>>, <<>>, <<>>, Num(0 - 10), Num(120)),
     CreateMemoryInput("decision", <<>>, <<>>, <<str("nonexistent")>>, Num(0), Num(0)),
     CreateMemoryInput("decision", <<>>, <<>>, <<uuid(1)>>, Num(69), UndefinedNum)}
Queries ==
    {NoQuery,
     MemoryQuery(<<>>, <<>>, <<>>, <<>>, TRUE, 0, 0, 0, 0),
     MemoryQuery(<<"decision">>, <<>>, <<>>, <<>>, TRUE, 0, 0, 0, 0),
     MemoryQuery(<<>>, <<"tag1">>, <<"a.ts">>, <<"active">>, FALSE, 0, 0, HighImportance, 0),
     MemoryQuery(<<>>, <<>>, <<>>, <<"active">>, FALSE, 1, 2, 0, 1)}

\* the state a call leaves and the value it returns
memApply(s, o, done) ==
    /\ memories' = o.dir
    /\ indexFile' = o.file
    /\ cache' = [cache EXCEPT ![s] = o.cache]
    /\ mret' = done
    /\ mcalls' = mcalls + 1
    /\ UNCHANGED mthr
    /\ UNCHANGED <<taskVars, regVars>>

\* the id uuidv4 draws is not an id the caller has passed in links.supersedes
createMemory(s, input) ==
    /\ mcalls < MaxMemOps
    /\ ~includes(input.supersedes, uuid(Len(memories) + 1))
    /\ clock' = clock + 1
    /\ \E o \in createMemoryOutcomes(memories, indexFile, cache[s], s, input, clock + 1) :
         memApply(s, o, MemDone("createMemory", s, IF o.threw THEN "throw" ELSE "value",
                                uuid(Len(memories) + 1), <<>>, input, NoQuery, o.memory,
                                <<>>, <<>>))
    /\ LET memory == Memory(uuid(Len(memories) + 1), input.type, clock + 1, s,
                            input.tags, input.related_files, input.supersedes,
                            orDefault(input.importance, DefaultImportance),
                            orDefault(input.confidence, DefaultConfidence))
           entries == addToTimeline(loadTimeline(tcache[s], timelineFile), entryOf(memory))
       IN  IF addToIndex(loadIndex(cache[s], indexFile), memory).threw
           THEN UNCHANGED <<timelineFile, tcache>>
           ELSE /\ timelineFile' = TimelineFile("json", entries)
                /\ tcache' = [tcache EXCEPT ![s] = CachedTimeline(entries)]

getMemory(s, id) ==
    /\ mcalls < MaxMemOps
    /\ clock' = clock
    /\ UNCHANGED <<timelineFile, tcache>>
    /\ \E o \in getMemoryOutcomes(memories, indexFile, cache[s], id, clock) :
         memApply(s, o, MemDone("getMemory", s,
                                IF o.memory = NoMemory THEN "null" ELSE "value",
                                id, <<>>, NoInput, NoQuery, o.memory, <<>>,
                                <<>>))

queryMemories(s, query) ==
    /\ mcalls < MaxMemOps
    /\ clock' = clock
    /\ UNCHANGED <<timelineFile, tcache>>
    /\ LET o == queryMemoriesOutcome(memories, indexFile, cache[s], query, clock)
       IN  memApply(s, o, MemDone("queryMemories", s,
                                  IF o.threw THEN "throw" ELSE "value",
                                  <<>>, <<>>, NoInput, query, NoMemory, o.list,
                                  <<>>))

markSuperseded(s, memoryId, supersededBy) ==
    /\ mcalls < MaxMemOps
    /\ clock' = clock
    /\ UNCHANGED <<timelineFile, tcache>>
    /\ \E o \in markSupersededOutcomes(memories, indexFile, cache[s], memoryId,
                                       supersededBy) :
         memApply(s, o, MemDone("markSuperseded", s, IF o.threw THEN "throw" ELSE "void",
                                memoryId, supersededBy, NoInput, NoQuery, NoMemory, <<>>,
                                <<>>))

\* MemoryStore.loadIndex called from outside
LoadIndex(s) ==
    /\ mcalls < MaxMemOps
    /\ clock' = clock
    /\ UNCHANGED <<timelineFile, tcache>>
    /\ memApply(s, MemOutcome(memories, indexFile,
                              Cached(loadIndex(cache[s], indexFile)), FALSE, NoMemory,
                              <<>>),
                MemDone("loadIndex", s, "value", <<>>, <<>>, NoInput, NoQuery, NoMemory,
                        <<>>, loadIndex(cache[s], indexFile)))

\* MemoryStore.getTimeline(limit): sort sorts the array of the cached object
getTimeline(s, limit) ==
    /\ mcalls < MaxMemOps
    /\ LET entries == sortTimeline(loadTimeline(tcache[s], timelineFile))
       IN  /\ tcache' = [tcache EXCEPT ![s] = CachedTimeline(entries)]
           /\ mret' = [kind |-> "value", op |-> "getTimeline", list |-> sliceTimeline(entries, limit),
                       store |-> s]
    /\ mcalls' = mcalls + 1
    /\ UNCHANGED <<memories, indexFile, cache, clock, mthr, timelineFile>>
    /\ UNCHANGED <<taskVars, regVars>>

NextMem ==
    \/ \E s \in Stores, input \in CreateInputs : createMemory(s, input)
    \/ \E s \in Stores, id \in MemoryArgs : getMemory(s, id)
    \/ \E s \in Stores, query \in Queries : queryMemories(s, query)
    \/ \E s \in Stores, id \in MemoryArgs, by \in {str("other"), uuid(2)} :
         markSuperseded(s, id, by)
    \/ \E s \in Stores : LoadIndex(s)

\* the directory after store s has created n memories at times 1..n, the
\* first of them of high importance, and the index any store then loads
SeedMemory(s, k) ==
    Memory(uuid(k), IF k = 1 THEN "decision" ELSE "fact", k, s, <<>>, <<>>, <<>>,
           IF k = 1 THEN HighImportance ELSE DefaultImportance, DefaultConfidence)
SeedIndex(s, n) ==
    [createEmptyIndex EXCEPT
        !.by_type["decision"] = [k \in 1..(IF n > 0 THEN 1 ELSE 0) |-> uuid(k)],
        !.by_type["fact"] = [k \in 1..(IF n > 0 THEN n - 1 ELSE 0) |-> uuid(k + 1)],
        !.by_status["active"] = [k \in 1..n |-> uuid(k)],
        !.recent = [j \in 1..(IF n > RecentCap THEN RecentCap ELSE n) |-> uuid(n - j + 1)],
        !.high_importance = [k \in 1..(IF n > 0 THEN 1 ELSE 0) |-> uuid(k)]]
SeedTimeline(s, n) == [k \in 1..n |-> entryOf(SeedMemory(s, k))]
MemSeeded(s, n) ==
    /\ memories = [k \in 1..n |-> SeedMemory(s, k)]
    /\ indexFile = IndexFile("json", SeedIndex(s, n))
    /\ cache \in {[x \in Stores |-> NoCache],
                  [x \in Stores |-> IF x = s THEN Cached(SeedIndex(s, n)) ELSE NoCache]}
    /\ clock = n
    /\ mret = NoMemDone
    /\ mcalls = 0
    /\ mthr = [x \in Stores |-> IdleMemThread]
    /\ timelineFile = TimelineFile("json", SeedTimeline(s, n))
    /\ tcache = [x \in Stores |-> IF cache[x].loaded
                                  THEN CachedTimeline(SeedTimeline(s, n)) ELSE NoTimeline]

InitMem ==
    /\ TaskFresh
    /\ RegFresh
    /\ registry = MissingFile
    /\ touched = [id \in Instances |-> <<>>]
    /\ MemFresh \/ MemSeeded("s1", 0) \/ MemSeeded("s1", 1)

SpecMem == InitMem /\ [][NextMem]_vars

\* ---- SpecRecent: the same methods on a directory of 49 or 50 memories ----
NextRecent ==
    \/ \E s \in Stores :
         \E input \in {CreateMemoryInput("fact", <<>>, <<>>, <<>>, UndefinedNum, UndefinedNum),
                       CreateMemoryInput("decision", <<"tag1">>, <<"a.ts">>, <<>>,
                                         Num(HighImportance), Num(100))} :
           createMemory(s, input)
    \/ \E s \in Stores : LoadIndex(s)
    \/ \E s \in Stores : getMemory(s, uuid(RecentCap))
    \/ \E s \in Stores, id \in {uuid(1), str("nonexistent")} :
         markSuperseded(s, id, str("other"))
    \/ \E s \in Stores : queryMemories(s, MemoryQuery(<<>>, <<>>, <<>>, <<"active">>, FALSE, 0, 0, 0, 1))

InitRecent ==
    /\ TaskFresh
    /\ RegFresh
    /\ registry = MissingFile
    /\ touched = [id \in Instances |-> <<>>]
    /\ MemSeeded("s1", 0) \/ MemSeeded("s1", RecentCap - 1) \/ MemSeeded("s1", RecentCap)

SpecRecent == InitRecent /\ [][NextRecent]_vars

\* ---- SpecTimeline: createMemory and getTimeline of one store ----
NextTimeline ==
    \/ \E input \in {CreateMemoryInput("fact", <<>>, <<>>, <<>>, UndefinedNum, UndefinedNum),
                      CreateMemoryInput("decision", <<"tag1">>, <<"a.ts">>, <<>>,
                                        Num(HighImportance), Num(100))} :
         createMemory("s1", input)
    \/ \E limit \in {0, 1, 2, 3} : getTimeline("s1", limit)

InitTimeline ==
    /\ TaskFresh
    /\ RegFresh
    /\ registry = MissingFile
    /\ touched = [id \in Instances |-> <<>>]
    /\ \E n \in {0, 1, 2, TimelineCap - 1, TimelineCap} : MemSeeded("s1", n)

SpecTimeline == InitTimeline /\ [][NextTimeline]_vars

\* ---- SpecMemLoad: the same calls on any content of the index file ----
\* an index document that has only the keys given: what it has no key for
\* is empty
Partial(index, keys, typeKeys, statusKeys) ==
    [keys |-> keys,
     typeKeys |-> IF "by_type" \in keys THEN typeKeys ELSE {},
     statusKeys |-> IF "by_status" \in keys THEN statusKeys ELSE {},
     by_type |-> [t \in MemoryTypes |->
                     IF "by_type" \in keys /\ t \in typeKeys THEN index.by_type[t] ELSE <<>>],
     by_tag |-> IF "by_tag" \in keys THEN index.by_tag ELSE [g \in Tags |-> <<>>],
     by_file |-> IF "by_file" \in keys THEN index.by_file ELSE [f \in RelatedFiles |-> <<>>],
     by_status |-> [st \in MemoryStatuses |->
                       IF "by_status" \in keys /\ st \in statusKeys
                       THEN index.by_status[st] ELSE <<>>],
     recent |-> IF "recent" \in keys THEN index.recent ELSE <<>>,
     high_importance |-> IF "high_importance" \in keys THEN index.high_importance ELSE <<>>]
\* {}; by_type of one type and by_tag; by_type only; all but high_importance
PartialKeys ==
    {<<{}, {}, {}>>,
     <<{"version", "last_updated", "by_type", "by_tag"}, {"decision"}, {}>>,
     <<{"version", "last_updated", "by_type"}, {"decision", "fact"}, {}>>,
     <<IndexKeys \ {"high_importance"}, MemoryTypes, MemoryStatuses>>,
     <<IndexKeys, MemoryTypes, MemoryStatuses>>}
InitMemLoad ==
    /\ TaskFresh
    /\ RegFresh
    /\ registry = MissingFile
    /\ touched = [id \in Instances |-> <<>>]
    /\ \E n \in {0, 1} :
         /\ memories = [k \in 1..n |-> SeedMemory("s1", k)]
         /\ clock = n
         /\ indexFile \in {MissingIndex, CorruptIndex}
                \cup {IndexFile("json", Partial(SeedIndex("s1", n), p[1], p[2], p[3])) :
                      p \in PartialKeys}
    /\ cache = [s \in Stores |-> NoCache]
    /\ mret = NoMemDone
    /\ mcalls = 0
    /\ mthr = [s \in Stores |-> IdleMemThread]
    /\ timelineFile = TimelineFile("json", SeedTimeline("s1", Len(memories)))
    /\ tcache = [s \in Stores |-> NoTimeline]

SpecMemLoad == InitMemLoad /\ [][NextMem]_vars

\* ---- SpecMemConc: one step per awaited filesystem call ----
\* Object.values(index.by_type) and the types of a query are read in this order
TypeOrder == <<"decision", "event", "fact", "preference", "context", "conclusion">>
RECURSIVE concatTypes(_, _)
concatTypes(by, types) ==
    IF types = <<>> THEN <<>> ELSE by[Head(types)] \o concatTypes(by, Tail(types))
\* candidateIds in the order the Set is iterated in
candidateList(index, query) ==
    LET keep(id) == id \in candidateIds(index, query)
    IN  SelectSeq(concatTypes(index.by_type,
                              IF query.types # <<>> THEN query.types ELSE TypeOrder), keep)

\* the calls the stores make
ConcMemCalls ==
    {[NewMemThread EXCEPT !.op = "getMemory", !.phase = "get.find", !.id = uuid(1)],
     [NewMemThread EXCEPT !.op = "markSuperseded", !.phase = "sup.find", !.id = uuid(1),
                          !.by = str("other")],
     [NewMemThread EXCEPT !.op = "queryMemories", !.phase = "query.load"],
     [NewMemThread EXCEPT !.op = "createMemory", !.phase = "create.write",
                          !.input = CreateMemoryInput("fact", <<>>, <<>>, <<>>,
                                                      UndefinedNum, UndefinedNum)],
     [NewMemThread EXCEPT !.op = "createMemory", !.phase = "create.write",
                          !.input = CreateMemoryInput("decision", <<>>, <<>>, <<uuid(1)>>,
                                                      Num(HighImportance), UndefinedNum)]}

\* the call of thread t returns
memReturn(s, t, kind) ==
    /\ mthr' = [mthr EXCEPT ![s] = IdleMemThread]
    /\ mret' = MemDone(t.op, s, kind, IF t.op = "createMemory" THEN t.by ELSE t.id,
                       IF t.op = "createMemory" THEN <<>> ELSE t.by, t.input, t.query,
                       t.memory,
                       IF t.op = "queryMemories"
                       THEN LET sorted == sortNewestFirst(memories, t.done)
                            IN  sliceLimit([j \in 1..Len(sorted) |-> memories[sorted[j]].id],
                                           t.query.limit)
                       ELSE <<>>,
                       <<>>)
\* the loop of createMemory or queryMemories takes the next id, or the call
\* returns
memLoop(s, t) ==
    IF t.todo = <<>>
    THEN memReturn(s, t, IF t.op = "markSuperseded" THEN "void"
                         ELSE IF t.op = "getMemory" /\ t.memory = NoMemory THEN "null"
                         ELSE "value")
    ELSE /\ mthr' = [mthr EXCEPT ![s] =
                        [t EXCEPT !.phase = IF t.op = "createMemory" THEN "sup.find"
                                            ELSE "get.find",
                                  !.id = Head(t.todo), !.todo = Tail(t.todo)]]
         /\ mret' = mret

\* a store that is in no call starts one
MemCall(s, call) ==
    /\ mthr[s].phase = "idle"
    /\ mcalls < MaxMemCalls
    /\ mcalls' = mcalls + 1
    /\ mthr' = [mthr EXCEPT ![s] = call]
    /\ UNCHANGED <<memories, indexFile, cache, clock, mret, timelineFile, tcache>>
    /\ UNCHANGED <<taskVars, regVars>>

\* createMemory: fs.writeFile(memoryPath, YAML.stringify(memory))
MemCreateStep(s) ==
    /\ mthr[s].phase = "create.write"
    /\ LET t == mthr[s]
           memory == Memory(uuid(Len(memories) + 1), t.input.type, clock + 1, s,
                            t.input.tags, t.input.related_files, t.input.supersedes,
                            orDefault(t.input.importance, DefaultImportance),
                            orDefault(t.input.confidence, DefaultConfidence))
       IN  /\ memories' = Append(memories, memory)
           /\ mthr' = [mthr EXCEPT ![s] = [t EXCEPT !.phase = "create.index",
                                                    !.by = memory.id, !.memory = memory]]
    /\ clock' = clock + 1
    /\ UNCHANGED <<indexFile, cache, mret, mcalls, timelineFile, tcache>>
    /\ UNCHANGED <<taskVars, regVars>>

\* addToIndex and the index part of markSuperseded: loadIndex, the changes,
\* saveIndex
MemIndexStep(s) ==
    /\ mthr[s].phase \in {"create.index", "sup.index"}
    /\ LET t == mthr[s]
           plan == IF t.phase = "create.index"
                   THEN addToIndex(loadIndex(cache[s], indexFile), t.memory)
                   ELSE supersedeInIndex(loadIndex(cache[s], indexFile), t.id)
       IN  /\ cache' = [cache EXCEPT ![s] = Cached(plan.index)]
           /\ indexFile' = IF plan.threw THEN indexFile ELSE IndexFile("json", plan.index)
           /\ IF plan.threw
              THEN memReturn(s, [t EXCEPT !.memory = NoMemory], "throw")
              ELSE IF t.phase = "create.index"
              THEN /\ mthr' = [mthr EXCEPT ![s] = [t EXCEPT !.phase = "create.timeline"]]
                   /\ mret' = mret
              ELSE memLoop(s, t)
    /\ UNCHANGED <<memories, clock, mcalls, timelineFile, tcache>>
    /\ UNCHANGED <<taskVars, regVars>>

\* createMemory: addToTimeline (loadTimeline, push, slice, saveTimeline)
MemTimelineStep(s) ==
    /\ mthr[s].phase = "create.timeline"
    /\ LET t == mthr[s]
           entries == addToTimeline(loadTimeline(tcache[s], timelineFile),
                                    entryOf(t.memory))
       IN  /\ timelineFile' = TimelineFile("json", entries)
           /\ tcache' = [tcache EXCEPT ![s] = CachedTimeline(entries)]
           /\ memLoop(s, [t EXCEPT !.todo = t.input.supersedes])
    /\ UNCHANGED <<memories, indexFile, cache, clock, mcalls>>
    /\ UNCHANGED <<taskVars, regVars>>

\* queryMemories: loadIndex and the candidate ids
MemQueryStep(s) ==
    /\ mthr[s].phase = "query.load"
    /\ LET t == mthr[s]
           index == loadIndex(cache[s], indexFile)
       IN  /\ cache' = [cache EXCEPT ![s] = Cached(index)]
           /\ IF candidateIdsThrows(index, t.query)
              THEN memReturn(s, t, "throw")
              ELSE memLoop(s, [t EXCEPT !.todo = candidateList(index, t.query)])
    /\ UNCHANGED <<memories, indexFile, clock, mcalls, timelineFile, tcache>>
    /\ UNCHANGED <<taskVars, regVars>>

\* getMemory and markSuperseded: findMemoryFile (getMemory loads the index
\* before)
MemFindStep(s) ==
    /\ mthr[s].phase \in {"get.find", "sup.find"}
    /\ LET t == mthr[s]
       IN  /\ cache' = IF t.phase = "get.find"
                       THEN [cache EXCEPT ![s] = Cached(loadIndex(cache[s], indexFile))]
                       ELSE cache
           /\ IF findMemoryFile(memories, t.id) = {}
              THEN memLoop(s, t)
              ELSE /\ \E k \in findMemoryFile(memories, t.id) :
                        mthr' = [mthr EXCEPT ![s] =
                                    [t EXCEPT !.k = k,
                                              !.phase = IF t.phase = "get.find"
                                                        THEN "get.read" ELSE "sup.read"]]
                   /\ mret' = mret
    /\ UNCHANGED <<memories, indexFile, clock, mcalls, timelineFile, tcache>>
    /\ UNCHANGED <<taskVars, regVars>>

\* getMemory and markSuperseded: fs.readFile(memoryPath) and YAML.parse
MemReadStep(s) ==
    /\ mthr[s].phase \in {"get.read", "sup.read"}
    /\ mthr' = [mthr EXCEPT ![s] =
                   [mthr[s] EXCEPT !.buf = memories[mthr[s].k],
                                   !.phase = IF mthr[s].phase = "get.read"
                                             THEN "get.write" ELSE "sup.write"]]
    /\ UNCHANGED <<memories, indexFile, cache, clock, mret, mcalls, timelineFile, tcache>>
    /\ UNCHANGED <<taskVars, regVars>>

\* getMemory and markSuperseded: fs.writeFile(memoryPath, YAML.stringify(memory))
MemWriteStep(s) ==
    /\ mthr[s].phase \in {"get.write", "sup.write"}
    /\ LET t == mthr[s]
       IN  IF t.phase = "sup.write"
           THEN /\ memories' = [memories EXCEPT ![t.k] = superseded(t.buf, t.by)]
                /\ mthr' = [mthr EXCEPT ![s] = [t EXCEPT !.phase = "sup.index"]]
                /\ mret' = mret
           ELSE /\ memories' = [memories EXCEPT ![t.k] = accessed(t.buf, clock)]
                /\ memLoop(s, IF t.op = "getMemory"
                              THEN [t EXCEPT !.memory = accessed(t.buf, clock)]
                              ELSE [t EXCEPT !.done =
                                        IF /\ ~(t.query.since # 0
                                                  /\ t.buf.timestamp < t.query.since)
                                           /\ ~(t.query.before # 0
                                                  /\ t.buf.timestamp > t.query.before)
                                           /\ ~(t.query.min_importance # 0
                                                  /\ t.buf.importance < t.query.min_importance)
                                        THEN @ \cup {t.k} ELSE @])
    /\ UNCHANGED <<indexFile, cache, clock, mcalls, timelineFile, tcache>>
    /\ UNCHANGED <<taskVars, regVars>>

NextMemConc ==
    \/ \E s \in Stores, call \in ConcMemCalls : MemCall(s, call)
    \/ \E s \in Stores : MemCreateStep(s)
    \/ \E s \in Stores : MemIndexStep(s)
    \/ \E s \in Stores : MemTimelineStep(s)
    \/ \E s \in Stores : MemQueryStep(s)
    \/ \E s \in Stores : MemFindStep(s)
    \/ \E s \in Stores : MemReadStep(s)
    \/ \E s \in Stores : MemWriteStep(s)

InitMemConc ==
    /\ TaskFresh
    /\ RegFresh
    /\ registry = MissingFile
    /\ touched = [id \in Instances |-> <<>>]
    /\ MemSeeded("s1", 1) \/ MemSeeded("s1", 2)

SpecMemConc == InitMemConc /\ [][NextMemConc]_vars

----------------------------------------------------------------------------
\* ---- the memory store: properties ----
MCalled(op) == mcalls' = mcalls + 1 /\ mret'.op = op
memoryIds(dir) == {dir[k].id : k \in 1..Len(dir)}
\* the content of the file of the memory whose id is id
fileOfId(dir, id) == dir[CHOOSE k \in 1..Len(dir) : dir[k].id = id]
clamp(v) == IF v < 0 THEN 0 ELSE IF v > 100 THEN 100 ELSE v

\* C23: the importance and the confidence createMemory stores and returns are
\* the input values brought into [0,1] (below 0 gives 0, above 1 gives 1),
\* and 0.5 and 0.8 when the input has none.
C23_Clamped ==
    [][(MCalled("createMemory") /\ mret'.kind = "value") =>
         LET written == memories'[Len(memories) + 1]
             importance == clamp(orDefault(mret'.input.importance, DefaultImportance))
             confidence == clamp(orDefault(mret'.input.confidence, DefaultConfidence))
         IN  /\ mret'.memory.importance = importance
             /\ mret'.memory.confidence = confidence
             /\ written.importance = importance
             /\ written.confidence = confidence]_vars

\* the index holds id under superseded and nowhere else among the status
\* buckets, recent and high_importance
OnlySuperseded(index, id) ==
    /\ includes(index.by_status["superseded"], id)
    /\ ~includes(index.by_status["active"], id)
    /\ ~includes(index.by_status["archived"], id)
    /\ ~includes(index.recent, id)
    /\ ~includes(index.high_importance, id)
\* markSuperseded(A, B) has done what the claim says on the files dir
Superseded(dir, A, B) ==
    IF A \in memoryIds(dir)
    THEN /\ fileOfId(memories', A).status = "superseded"
         /\ fileOfId(memories', A).has_superseded_by
         /\ fileOfId(memories', A).superseded_by = B
         /\ indexFile'.kind = "json"
         /\ OnlySuperseded(indexFile'.doc, A)
    ELSE /\ SubSeq(memories', 1, Len(dir)) = dir
         /\ indexFile'.kind = "json" => ~includes(indexFile'.doc.by_status["superseded"], A)
\* C24: markSuperseded(A, B), called directly or by createMemory for an
\* element A of links.supersedes, leaves an existing A superseded by B in its
\* file and in the index under by_status.superseded only; when no memory has
\* the id A it changes nothing and does not throw.
C24_MarkSuperseded ==
    [][/\ MCalled("markSuperseded") =>
            /\ mret'.kind = "void"
            /\ Superseded(memories, mret'.id, mret'.by)
            /\ mret'.id \notin memoryIds(memories) => indexFile' = indexFile
       /\ (MCalled("createMemory") /\ mret'.kind = "value") =>
            \A k \in 1..Len(mret'.input.supersedes) :
                Superseded(memories, mret'.input.supersedes[k], mret'.id)]_vars

\* every memory was created by store s and is superseded only by a memory
\* of s that names it in links.supersedes
OnlyCreates(s) ==
    \A k \in 1..Len(memories) :
        /\ memories[k].instance_id = s
        /\ memories[k].status = "active" \/
             \E j \in 1..Len(memories) :
                 /\ memories[k].status = "superseded"
                 /\ memories[k].superseded_by = memories[j].id
                 /\ includes(memories[j].supersedes, memories[k].id)
withStatus(dir, statuses, types) ==
    {dir[k].id : k \in {j \in 1..Len(dir) :
                           dir[j].status \in statuses /\ dir[j].type \in types}}
\* C25: after createMemory calls of a store, some of them superseding,
\* queryMemories({}) returns exactly the active memories and
\* queryMemories({include_superseded: true}) every active and every
\* superseded memory, of the types asked for when types is given.
C25_IncludeSuperseded ==
    [][(/\ MCalled("queryMemories")
        /\ OnlyCreates(mret'.store)
        /\ cache[mret'.store].loaded => cache[mret'.store].index = indexFile.doc
        /\ mret'.query \in {[NoQuery EXCEPT !.include_superseded = b, !.types = t] :
                               b \in BOOLEAN, t \in {<<>>, <<"decision">>}}) =>
         /\ mret'.kind = "value"
         /\ asSet(mret'.list) =
               withStatus(memories,
                          IF mret'.query.include_superseded
                          THEN {"active", "superseded"} ELSE {"active"},
                          IF mret'.query.types = <<>>
                          THEN MemoryTypes ELSE asSet(mret'.query.types))]_vars

\* the ids of the min(n, 50) memories created last of n, newest first
lastCreated(n) ==
    [j \in 1..(IF n > RecentCap THEN RecentCap ELSE n) |-> uuid(n - j + 1)]
\* every memory was created by store s and none is superseded
CreatedBy(s) ==
    \A k \in 1..Len(memories) :
        memories[k].instance_id = s /\ memories[k].status = "active"
\* C27: recent, in the index file and in the index of every store, never
\* has more than 50 entries nor a duplicate; when one store has created the
\* N memories and none is superseded, the index this store, or a store that
\* had not loaded it before, loads has in recent the ids of the min(N,50)
\* memories created last, newest first.
C27_Recent ==
    /\ [](/\ indexFile.kind = "json" => /\ Len(indexFile.doc.recent) <= RecentCap
                                        /\ NoDuplicate(indexFile.doc.recent)
          /\ \A s \in Stores :
               cache[s].loaded => /\ Len(cache[s].index.recent) <= RecentCap
                                  /\ NoDuplicate(cache[s].index.recent))
    /\ [][(/\ MCalled("loadIndex")
           /\ \E c \in Stores :
                /\ CreatedBy(c)
                /\ mret'.store = c \/ ~cache[mret'.store].loaded) =>
            mret'.index.recent = lastCreated(Len(memories))]_vars
\* loadIndex after the 51st memory: recent has 50 ids, the oldest id is gone
C27_Witness ==
    /\ mret.op = "loadIndex"
    /\ CreatedBy("s1")
    /\ Len(memories) = RecentCap + 1
    /\ Len(mret.index.recent) = RecentCap
    /\ mret.index.recent[1] = uuid(RecentCap + 1)
    /\ ~includes(mret.index.recent, uuid(1))

\* the ids the lists of an index hold
indexIds(index) ==
    flat(index.by_type, MemoryTypes) \cup flat(index.by_tag, Tags)
        \cup flat(index.by_file, RelatedFiles) \cup flat(index.by_status, MemoryStatuses)
        \cup asSet(index.recent) \cup asSet(index.high_importance)
\* C28: every id in a list of the persisted index (by_type, by_tag, by_file,
\* by_status, recent, high_importance) is the id of a memory file.
C28_IndexIdsExist ==
    indexFile.kind = "json" => indexIds(indexFile.doc) \subseteq memoryIds(memories)

\* C30: getMemory(id) returns a memory only when id is the id of a memory,
\* and then that memory; for any other string it returns null and changes
\* no file.
C30_ExactId ==
    [][MCalled("getMemory") =>
         IF mret'.id \in memoryIds(memories)
         THEN mret'.kind = "value" /\ mret'.memory.id = mret'.id
         ELSE /\ mret'.kind = "null"
              /\ memories' = memories
              /\ indexFile' = indexFile]_vars

\* the index has every key, every type and every status
Complete(index) ==
    /\ index.keys = IndexKeys
    /\ index.typeKeys = MemoryTypes
    /\ index.statusKeys = MemoryStatuses
\* C29: loadIndex returns the empty index when the index file is missing or
\* is not JSON, and the keys of a partial index file merged over the empty
\* index otherwise, so that the index returned has every type and every
\* status key and a createMemory that follows does not throw.
C29_LoadIndexMerges ==
    [][/\ MCalled("loadIndex") =>
            /\ mret'.kind = "value"
            /\ Complete(mret'.index)
            /\ ~cache[mret'.store].loaded =>
                 mret'.index = IF indexFile.kind = "json"
                               THEN [indexFile.doc EXCEPT !.keys = IndexKeys,
                                                          !.typeKeys = MemoryTypes,
                                                          !.statusKeys = MemoryStatuses]
                               ELSE createEmptyIndex
       /\ MCalled("createMemory") => mret'.kind = "value"]_vars

\* C26: the status of a memory file does not go back from superseded to
\* active, whatever the interleaving of the steps of createMemory,
\* markSuperseded, getMemory and queryMemories of the stores.
C26_StatusForward ==
    [][\A k \in 1..Len(memories) :
          memories[k].status = "superseded" => memories'[k].status = "superseded"]_vars


\* C31: queryMemories with since = s and before = b returns only memories
\* whose timestamp t has s <= t < b: a memory with t = b is not returned.
C31_HalfOpen ==
    [][(/\ MCalled("queryMemories")
        /\ mret'.kind = "value"
        /\ mret'.query.since # 0
        /\ mret'.query.before # 0) =>
         \A j \in 1..Len(mret'.list) :
             LET t == fileOfId(memories, mret'.list[j]).timestamp
             IN  mret'.query.since <= t /\ t < mret'.query.before]_vars


\* C32: when a process stops between the unlink and the write of a task
\* transition (claimTask, completeTask, failTask), the task still has a file
\* in some bucket, so that findTask finds it.
C32_NotLost ==
    [][\A i \in Instances :
          (pc[i] = "save" /\ cur[i].plan.del # "none" /\ pc'[i] = "stopped") =>
              findTask(files', cur[i].id) # Null]_vars


\* C33: after failTask(id, error) returns a task for a task that was pending,
\* claimed or in_progress, the task has a file in the failed bucket and in no
\* other bucket, and getTask(id) returns it with status failed,
\* result.success = false and result.error = error.
C33_FailMoves ==
    [][(/\ ret'.op = "failTask"
        /\ ret'.kind = "task"
        /\ findTask(files, ret'.id) # Null
        /\ findTask(files, ret'.id).status \in {"pending", "claimed", "in_progress"}) =>
         /\ {b \in BucketSet : files'[b][ret'.id] # Null} = {"failed"}
         /\ findTask(files', ret'.id).status = "failed"
         /\ findTask(files', ret'.id).result.success = FALSE
         /\ findTask(files', ret'.id).result.error \in Errors]_vars


\* C34: status_history only grows by appending: the status_history getTask
\* returns after a step has the one it returned before the step as a prefix,
\* in any interleaving of the operations of several instances.
IsPrefix(h, g) == Len(h) <= Len(g) /\ \A k \in 1..Len(h) : g[k] = h[k]
C34_HistoryAppends ==
    [][\A id \in TaskIds :
          (findTask(files, id) # Null /\ findTask(files', id) # Null) =>
              IsPrefix(findTask(files, id).status_history,
                       findTask(files', id).status_history)]_vars


\* C35: claimTask(id) by an instance succeeds only if the task is claimable
\* by it under the rule of getClaimableTasks: when getClaimableTasks, called
\* by the instance with its capabilities, has not offered a task, a
\* claimTask of the instance that follows does not return that task.
C35_ClaimOnlyClaimable ==
    [][(/\ ret.op = "getClaimableTasks"
        /\ ret'.op = "claimTask"
        /\ ret'.by = ret.by
        /\ ret'.kind = "task") =>
         findTask(files, ret'.id) \in ret.list]_vars

\* C36: after createMemory and getTimeline calls of one store the timeline
\* file holds the entries of the min(N, 500) memories created last, in the
\* order of their creation
lastEntries(dir) ==
    LET n == IF Len(dir) > TimelineCap THEN TimelineCap ELSE Len(dir)
    IN  [k \in 1..n |-> entryOf(dir[Len(dir) - n + k])]
C36_Chronological ==
    timelineFile.kind = "json" => timelineFile.entries = lastEntries(memories)

\* C37: acknowledgeResult on a task that is pending, claimed or in_progress
\* does not raise, sets wait_handle.acknowledged, and leaves the task in the
\* directories it was in with its status unchanged
C37_AckNotTerminal ==
    [][(/\ ret'.op = "acknowledgeResult"
        /\ findTask(files, ret'.id) # Null
        /\ findTask(files, ret'.id).status \in {"pending", "claimed", "in_progress"}) =>
         /\ ret'.kind = "void"
         /\ findTask(files', ret'.id).wait_handle.acknowledged
         /\ findTask(files', ret'.id).status = findTask(files, ret'.id).status
         /\ \A b \in BucketSet :
               (files'[b][ret'.id] # Null) <=> (files[b][ret'.id] # Null)]_vars

\* C38: when a store has completed a createMemory and then another store
\* completes one (that does not supersede the first), the index file lists
\* both new ids in by_type, in by_status.active and in recent
listedInIndex(doc, id, type) ==
    /\ includes(doc.by_type[type], id)
    /\ includes(doc.by_status["active"], id)
    /\ includes(doc.recent, id)
C38_BothListed ==
    [][(/\ mret.op = "createMemory" /\ mret.kind = "value"
        /\ MCalled("createMemory") /\ mret'.kind = "value"
        /\ mret'.store # mret.store
        /\ ~includes(mret'.input.supersedes, mret.id)) =>
         /\ indexFile'.kind = "json"
         /\ listedInIndex(indexFile'.doc, mret.id, mret.input.type)
         /\ listedInIndex(indexFile'.doc, mret'.id, mret'.input.type)]_vars

\* C39: the waiting_for list of the instance holds exactly the ids of the
\* tasks it has delegated and not acknowledged
outstanding(fs, inst) ==
    {id \in TaskIds : /\ findTask(fs, id) # Null
                      /\ findTask(fs, id).wait_handle.requester = inst
                      /\ ~findTask(fs, id).wait_handle.acknowledged}
C39_WaitsKept ==
    LET e == loadRegistry(registry).instances["i1"]
    IN  e.present =>
            {e.waiting_for[k] : k \in 1..Len(e.waiting_for)} = outstanding(files, "i1")

============================================================================
